---- MODULE Spec2Model ----
(***************************************************************************)
(* Caves of Qud (Foundry VTT system): penetration dice engine and the      *)
(* multi-weapon attack orchestrator, as a state machine.                   *)
(*                                                                         *)
(* Every "await" of the JavaScript source is a suspension point; the code  *)
(* between two suspension points is one atomic action.  A die roll         *)
(* (await new Roll(..).evaluate()) and a document update                   *)
(* (await actor.update(..)) are the suspension points.                     *)
(***************************************************************************)
EXTENDS Integers, Sequences, FiniteSets, TLC

\* ------------------------------------------------------------------------
\* Bounds of the model
\* ------------------------------------------------------------------------
\* longest explosion chain of a singlet rolled on its own (the code has no cap)
MaxChain == 3
\* longest explosion chain of a singlet rolled inside a triplet
MaxTripletChain == 2
\* largest penetration value handed to resolvePenetration directly
MaxPV == 3

\* Invocations (async call frames) that may be in flight at the same time.
Attacks == {"A1", "A2"}

\* ------------------------------------------------------------------------
\* Die faces offered by the random source to each specification
\* ------------------------------------------------------------------------
D10 == 1..10
D10Sample == {3, 5, 10}
D10Attack == {3, 5}
D10Fixed == {5}
D20Sample == {4, 5}
D20Fixed == {5}
D100Sample == {7, 21}
D100Fixed == {7}
DamageSample == {0, 2}
DamageFixed == {2}
AVSample == {2, 4}

VARIABLES
  bodyParts,   \* attacker.system.bodyParts, in key (insertion) order
  items,       \* attacker.items : item id -> item document
  mutations,   \* the attacker's mutation items : name -> [isActive, level]
  combat,      \* attacker.system.combat : [mainHandId, pv]
  agility,     \* attacker.system.attributes.agility : [mod]
  target,      \* target.system : [health, dv, av]
  inv,         \* per invocation: the local variables and position of the call
  actor,       \* the rest of attacker.system : attributes, level, health, ...
  bodyPartIdCounter,  \* the module-level counter of generateBodyPartId
  calls        \* history: the completed calls of the body handlers, oldest first

vars == <<bodyParts, items, mutations, combat, agility, target, inv, actor,
          bodyPartIdCounter, calls>>

\* null / undefined of the source
Nothing == [id |-> ""]
IsSome(x) == x.id # ""
Max(a, b) == IF a >= b THEN a ELSE b

\* ------------------------------------------------------------------------
\* dice.mjs : rollQudSinglet
\* ------------------------------------------------------------------------
\* let total = 0; let rolls = []; let continueRolling = true;
SingletStart == [total |-> 0, rolls |-> <<>>, continueRolling |-> TRUE]

\* the condition under which the while loop rolls again
ExplodesMutant(dieResult, modified) == dieResult = 8
Explodes(dieResult, modified) == modified = 8

\* the modifier applied to each d10
Modified(dieResult) == dieResult - 2

\* one iteration of the while loop, given the face the d10 showed
rollQudSingletStepMutant(s, dieResult) ==
  LET modified == Modified(dieResult) IN
  [total |-> s.total + dieResult,
   rolls |-> Append(s.rolls, [raw |-> dieResult, modified |-> modified]),
   continueRolling |-> Explodes(dieResult, modified)]
rollQudSingletStep(s, dieResult) ==
  LET modified == Modified(dieResult) IN
  [total |-> s.total + modified,
   rolls |-> Append(s.rolls, [raw |-> dieResult, modified |-> modified]),
   continueRolling |-> Explodes(dieResult, modified)]

\* the record returned once the loop has ended
rollQudSingletResult(s) ==
  [total |-> s.total,
   rolls |-> s.rolls,
   exploded |-> Len(s.rolls) > 1,
   explosionChain |-> [i \in 1..Len(s.rolls) |-> s.rolls[i].raw]]

\* ------------------------------------------------------------------------
\* dice.mjs : rollQudTriplet
\* ------------------------------------------------------------------------
SingletPassesMutant(s, attackerPV, defenderAV) == (s.total + attackerPV) > defenderAV
SingletPasses(s, attackerPV, defenderAV) == (s.total + attackerPV) >= defenderAV

\* the evaluation with the singlets taken in the opposite order
rollQudTripletResultMutant(singlets, attackerPV, defenderAV) ==
  LET singletsPassed ==
        Cardinality({i \in 1..Len(singlets) :
                       SingletPasses(singlets[i], attackerPV, defenderAV)})
  IN [singlets |-> [i \in 1..Len(singlets) |-> singlets[Len(singlets) + 1 - i]],
      attackerPV |-> attackerPV,
      defenderAV |-> defenderAV,
      targetNumber |-> defenderAV,
      singletsPassed |-> singletsPassed,
      penetrations |-> IF singletsPassed > 0 THEN 1 ELSE 0,
      allPassed |-> singletsPassed = 3]
\* the evaluation after Promise.all has delivered the three singlets
rollQudTripletResult(singlets, attackerPV, defenderAV) ==
  LET singletsPassed ==
        Cardinality({i \in 1..Len(singlets) :
                       SingletPasses(singlets[i], attackerPV, defenderAV)})
  IN [singlets |-> singlets,
      attackerPV |-> attackerPV,
      defenderAV |-> defenderAV,
      targetNumber |-> defenderAV,
      singletsPassed |-> singletsPassed,
      penetrations |-> IF singletsPassed > 0 THEN 1 ELSE 0,
      allPassed |-> singletsPassed = 3]

\* ------------------------------------------------------------------------
\* dice.mjs : resolvePenetration
\* ------------------------------------------------------------------------
\* currentPV -= 2
ReducedPVMutant(currentPV) == currentPV - 1
ReducedPV(currentPV) == currentPV - 2

resolvePenetrationStart(attackerPV, defenderAV) ==
  [attackerPV |-> attackerPV,
   defenderAV |-> defenderAV,
   currentPV |-> attackerPV,
   totalPenetrations |-> 0,
   triplets |-> <<>>,
   continueRolling |-> TRUE]

\* while (continueRolling && currentPV > 0)
resolvePenetrationLoop(p) == p.continueRolling /\ p.currentPV > 0

\* the loop body after the awaited triplet has arrived
resolvePenetrationStepMutant(p, triplet) ==
  [p EXCEPT !.triplets = Append(@, triplet),
            !.totalPenetrations = @ + triplet.singletsPassed,
            !.currentPV = IF triplet.allPassed THEN ReducedPV(@) ELSE @,
            !.continueRolling = IF triplet.allPassed THEN @ ELSE FALSE]
resolvePenetrationStep(p, triplet) ==
  [p EXCEPT !.triplets = Append(@, triplet),
            !.totalPenetrations = @ + triplet.penetrations,
            !.currentPV = IF triplet.allPassed THEN ReducedPV(@) ELSE @,
            !.continueRolling = IF triplet.allPassed THEN @ ELSE FALSE]

resolvePenetrationResult(p) ==
  [triplets |-> p.triplets,
   totalPenetrations |-> p.totalPenetrations,
   initialPV |-> p.attackerPV,
   finalPV |-> p.currentPV]

\* ------------------------------------------------------------------------
\* config.mjs, bodyparts.mjs : body part types
\* ------------------------------------------------------------------------
\* CAVESOFQUD.bodyPartTypes[type].canWield
WieldingTypes == {"Hand", "BurrowingClaw"}

canWieldWeapon(part) == part.type \in WieldingTypes

\* the part with this id (bodyParts[id]), or Nothing
PartById(id) ==
  IF \E i \in 1..Len(bodyParts) : bodyParts[i].id = id
  THEN bodyParts[CHOOSE i \in 1..Len(bodyParts) : bodyParts[i].id = id]
  ELSE Nothing

\* actor.items.get(id)
ItemGet(id) == IF id \in DOMAIN items THEN items[id] ELSE Nothing

\* weapon.system.pv || 0
WeaponPV(weapon) == IF "pv" \in DOMAIN weapon THEN weapon.pv ELSE 0

\* item.mjs : the mutation documents' natural weapon descriptors
NaturalWeaponTypes(name) == IF name = "Horns" THEN {"Head"} ELSE {}
NaturalWeaponAttackChance(name) == IF name = "Horns" THEN 20 ELSE 100
NaturalWeaponId(name, partId) ==
  IF partId = "head" THEN "natural-Horns-head" ELSE "natural-Horns-part"

\* ------------------------------------------------------------------------
\* actor.mjs : getNaturalWeapon, getMainHand, getOffHands, offhand chances
\* ------------------------------------------------------------------------
getNaturalWeapon(bodyPartId) ==
  LET bodyPart == PartById(bodyPartId)
      granting == {m \in DOMAIN mutations :
                     /\ mutations[m].isActive
                     /\ IsSome(bodyPart)
                     /\ bodyPart.type \in NaturalWeaponTypes(m)}
  IN IF ~IsSome(bodyPart) THEN Nothing
     ELSE IF bodyPart.equipment # "" THEN Nothing
     ELSE IF granting = {} THEN Nothing
     ELSE LET m == CHOOSE m \in granting : TRUE
          IN [id |-> NaturalWeaponId(m, bodyPartId), name |-> m,
              type |-> "weapon", pv |-> 0, damage |-> m]

\* part.equipment && actor.items.get(part.equipment)?.type === 'weapon'
hasEquippedWeapon(part) ==
  /\ part.equipment # ""
  /\ IsSome(ItemGet(part.equipment))
  /\ ItemGet(part.equipment).type = "weapon"

\* the body parts bearing a weapon (equipped or natural), in key order
partsWithWeapons ==
  SelectSeq(bodyParts,
            LAMBDA part : hasEquippedWeapon(part) \/ IsSome(getNaturalWeapon(part.id)))

getMainHand ==
  IF combat.mainHandId = "" THEN Nothing ELSE PartById(combat.mainHandId)

IsOffHandMutant(part) == canWieldWeapon(part) \/ IsSome(getNaturalWeapon(part.id))
IsOffHand(part) ==
  /\ part.id # combat.mainHandId
  /\ (canWieldWeapon(part) \/ IsSome(getNaturalWeapon(part.id)))

getOffHands == SelectSeq(bodyParts, IsOffHand)

\* part.equipment ? items.get(part.equipment) : getNaturalWeapon(part.id)
HandWeaponMutant(part) == getNaturalWeapon(part.id)
HandWeapon(part) ==
  IF part.equipment # "" THEN ItemGet(part.equipment) ELSE getNaturalWeapon(part.id)

\* _calculateOffhandChance for a part no mutation added, skill tier 0
OffhandBaseChance == 7

\* _calculateOffhandChances : the chance stored on one part at recomputation
calculateOffhandChance(part, muts) ==
  IF canWieldWeapon(part) THEN OffhandBaseChance
  ELSE LET granting == {m \in DOMAIN muts :
                          muts[m].isActive /\ part.type \in NaturalWeaponTypes(m)}
       IN IF granting = {} THEN 0
          ELSE NaturalWeaponAttackChance(CHOOSE m \in granting : TRUE)

\* ------------------------------------------------------------------------
\* combat.mjs : validateAttacker (the message it throws, "" when it passes)
\* ------------------------------------------------------------------------
ErrNoWeapons == "Actor has no weapons (equipped or natural)"
ErrMustDesignate == "Must designate a main hand before attacking with multiple weapons"
ErrInvalidTarget == "Invalid target"
ErrNoMainHand == "No main hand designated"
ErrMainHandNoWeapon == "Main hand has no weapon (equipped or natural)"
ValidationErrors ==
  {ErrNoWeapons, ErrMustDesignate, ErrInvalidTarget, ErrNoMainHand, ErrMainHandNoWeapon}

validateAttackerMutant ==
  IF Len(partsWithWeapons) = 0 THEN ErrNoWeapons
  ELSE IF Len(partsWithWeapons) >= 1 /\ combat.mainHandId = "" THEN ErrMustDesignate
  ELSE ""
validateAttacker ==
  IF Len(partsWithWeapons) = 0 THEN ErrNoWeapons
  ELSE IF Len(partsWithWeapons) > 1 /\ combat.mainHandId = "" THEN ErrMustDesignate
  ELSE ""

\* ------------------------------------------------------------------------
\* Call frames.  Each invocation keeps the local variables of the async
\* functions it is inside of, and its position (pc) at the current await.
\* ------------------------------------------------------------------------
IdleFrame ==
  [pc |-> "idle", entry |-> "", error |-> "",
   pendingMainHandId |-> "", pendingHP |-> 0, updated |-> FALSE,
   targetHPBefore |-> 0, offHands |-> <<>>, offhand |-> FALSE,
   partId |-> "", weapon |-> Nothing, cur |-> <<>>, result |-> <<>>,
   pen |-> <<>>, singlets |-> <<>>, damageRolls |-> <<>>,
   mainHandResults |-> <<>>, offHandResults |-> <<>>,
   ret |-> <<>>,
   \* history kept for the properties: the call's arguments, the shared
   \* state at the call, the dice in the order they arrived
   args |-> <<>>, atCall |-> <<>>, dieLog |-> <<>>, delivered |-> <<>>]

Has(r, field) == field \in DOMAIN r
\* JavaScript truthiness of r.field, a boolean or undefined
IsTrue(r, field) == Has(r, field) /\ r[field]
\* JavaScript truthiness of r.field, a number or undefined
NonZero(r, field) == Has(r, field) /\ r[field] # 0

RECURSIVE SumTotalDamage(_)
SumTotalDamage(rs) ==
  IF rs = <<>> THEN 0 ELSE Head(rs).totalDamage + SumTotalDamage(Tail(rs))

RECURSIVE SumSeq(_)
SumSeq(xs) == IF xs = <<>> THEN 0 ELSE Head(xs) + SumSeq(Tail(xs))

\* a die of this kind arrived for the hand on f.partId: the log keeps the
\* order of arrival, consecutive dice of one hand and kind as one entry
NoteDie(f, kind) ==
  LET entry == [part |-> f.partId, kind |-> kind] IN
  IF f.dieLog # <<>> /\ f.dieLog[Len(f.dieLog)] = entry THEN f
  ELSE [f EXCEPT !.dieLog = Append(@, entry)]

\* throw new Error(message)
Throw(f, message) == [f EXCEPT !.pc = "failed", !.error = message]

\* ------------------------------------------------------------------------
\* combat.mjs : executeMultiWeaponAttack, phases 3 and 4 and the return
\* ------------------------------------------------------------------------
\* applyDamage (the later of the two definitions in the class wins)
applyDamageNewHP(currentHP, amount) == Max(0, currentHP - amount)

CountsAsSuccessful(r, offhand) ==
  /\ (offhand => IsTrue(r, "triggered"))
  /\ IsTrue(r, "hit")
  /\ NonZero(r, "totalDamage")

allSuccessfulAttacks(f) ==
  SelectSeq(f.mainHandResults, LAMBDA r : CountsAsSuccessful(r, FALSE))
  \o SelectSeq(f.offHandResults, LAMBDA r : CountsAsSuccessful(r, TRUE))

AttackReturn(f, totalDamage, targetHPAfter) ==
  [f EXCEPT !.pc = "chat",
            !.ret = [mainHandResults |-> f.mainHandResults,
                     offHandResults |-> f.offHandResults,
                     totalDamage |-> totalDamage,
                     targetHPBefore |-> f.targetHPBefore,
                     targetHPAfter |-> targetHPAfter]]

\* after the last hand: sum, and either start the damage update or return
AggregateDamage(f) ==
  LET totalDamage == SumTotalDamage(allSuccessfulAttacks(f)) IN
  IF totalDamage > 0
  THEN [f EXCEPT !.pc = "applyDamage",
                 !.pendingHP = applyDamageNewHP(target.health, totalDamage),
                 !.cur = [totalDamage |-> totalDamage]]
  ELSE AttackReturn(f, totalDamage, target.health)

\* ------------------------------------------------------------------------
\* combat.mjs : the offhand loop of executeMultiWeaponAttack
\* ------------------------------------------------------------------------
\* offHand.offhandChance || 0
OffhandChanceOf(offHand) ==
  IF Has(offHand, "offhandChance") THEN offHand.offhandChance ELSE 0

\* the next iteration of for (const offHand of offHands), up to its await
RECURSIVE NextOffHand(_)
NextOffHand(f) ==
  IF f.offHands = <<>> THEN AggregateDamage(f)
  ELSE LET offHand == Head(f.offHands)
           offHandWeapon == HandWeapon(offHand)
           rest == [f EXCEPT !.offHands = Tail(@)]
       IN IF ~IsSome(offHandWeapon) THEN NextOffHand(rest)
          ELSE \* executeOffhandAttack up to the 1d100 roll
               [rest EXCEPT !.pc = "percent",
                            !.offhand = TRUE,
                            !.partId = offHand.id,
                            !.weapon = offHandWeapon,
                            !.cur = [bodyPartId |-> offHand.id,
                                     weaponId |-> offHandWeapon.id,
                                     offhandChance |-> OffhandChanceOf(offHand)]]

\* what the attack keeps of a finished hand: every field a later step reads,
\* and of the penetration record its totals and the number of triplets (the
\* per-die detail is written once for display and read by no later step)
Recorded(handResult) ==
  IF Has(handResult, "penetration")
  THEN [handResult EXCEPT !.penetration =
          [totalPenetrations |-> @.totalPenetrations,
           initialPV |-> @.initialPV,
           finalPV |-> @.finalPV,
           tripletsRolled |-> Len(@.triplets)]]
  ELSE handResult

\* the locals of executeHandAttack / executeOffhandAttack go out of scope
DropHandLocals(f) ==
  [f EXCEPT !.partId = "", !.weapon = Nothing, !.cur = <<>>, !.result = <<>>,
            !.pen = <<>>, !.singlets = <<>>, !.damageRolls = <<>>]

\* a hand has returned its result: push it, then go on with the offhands
HandReturns(f, handResult) ==
  IF f.offhand
  THEN NextOffHand([DropHandLocals(f) EXCEPT
                      !.offHandResults = Append(@, Recorded(handResult))])
  ELSE NextOffHand([DropHandLocals(f) EXCEPT
                      !.mainHandResults = <<Recorded(handResult)>>,
                      !.offHands = getOffHands])

\* ------------------------------------------------------------------------
\* combat.mjs : executeHandAttack
\* ------------------------------------------------------------------------
Hits(toHitTotal, targetDV) == toHitTotal >= targetDV

\* attacker.system.combat.pv + (weapon.system.pv || 0)
HandAttackerPV(weapon) == combat.pv + WeaponPV(weapon)

\* the number of damage rolls the loop makes
DamageRollsWantedMutant(penetration) == Len(penetration.triplets)
DamageRollsWanted(penetration) == penetration.totalPenetrations

\* phase 2 has returned: no penetration ends the hand, else phase 3 begins
executeHandAttackAfterPenetration(f) ==
  LET penetration == resolvePenetrationResult(f.pen)
      result == [penetration |-> penetration] @@ f.result
  IN IF penetration.totalPenetrations = 0
     THEN HandReturns(f, [damageRolls |-> <<>>, totalDamage |-> 0] @@ result)
     ELSE [f EXCEPT !.pc = "damage", !.result = result, !.damageRolls = <<>>]

\* one iteration of the damage loop has its roll
executeHandAttackDamage(f, total) ==
  LET damageRolls == Append(f.damageRolls, total) IN
  IF Len(damageRolls) < DamageRollsWanted(f.result.penetration)
  THEN [f EXCEPT !.damageRolls = damageRolls]
  ELSE HandReturns([f EXCEPT !.damageRolls = damageRolls],
                   [damageRolls |-> damageRolls,
                    totalDamage |-> SumSeq(damageRolls)] @@ f.result)

\* ------------------------------------------------------------------------
\* dice.mjs : the three singlets of a triplet are started together
\* ------------------------------------------------------------------------
StartTriplet(f) ==
  [f EXCEPT !.pc = "triplet",
            !.singlets = <<SingletStart, SingletStart, SingletStart>>]

\* resolvePenetration has left its loop and returns to its caller
PenetrationReturns(f) ==
  IF f.entry = "resolvePenetration"
  THEN [f EXCEPT !.pc = "returned", !.ret = resolvePenetrationResult(f.pen)]
  ELSE executeHandAttackAfterPenetration(f)

\* resolvePenetration from its first line up to its first await
EnterPenetration(f, attackerPV, defenderAV) ==
  LET p == resolvePenetrationStart(attackerPV, defenderAV)
      g == [f EXCEPT !.pen = p]
  IN IF resolvePenetrationLoop(p) THEN StartTriplet(g) ELSE PenetrationReturns(g)

\* executeHandAttack once the to-hit roll has arrived
executeHandAttackToHit(f, d20) ==
  LET toHitTotal == d20 + agility.mod
      targetDV == target.dv
      hit == Hits(toHitTotal, targetDV)
      result == [bodyPartId |-> f.partId,
                 weaponId |-> f.weapon.id,
                 weaponPV |-> WeaponPV(f.weapon),
                 toHitRoll |-> d20,
                 toHitTotal |-> toHitTotal,
                 targetDV |-> targetDV,
                 hit |-> hit] @@ f.cur
  IN IF ~hit THEN HandReturns(f, result)
     ELSE EnterPenetration([f EXCEPT !.result = result],
                           HandAttackerPV(f.weapon), target.av)

\* ------------------------------------------------------------------------
\* combat.mjs : executeMultiWeaponAttack up to the main hand's to-hit roll
\* ------------------------------------------------------------------------
executeMultiWeaponAttackStart(f) ==
  LET mainHand == getMainHand IN
  IF ~IsSome(mainHand) THEN Throw(f, ErrNoMainHand)
  ELSE LET mainHandWeapon == HandWeapon(mainHand) IN
       IF ~IsSome(mainHandWeapon) THEN Throw(f, ErrMainHandNoWeapon)
       ELSE [f EXCEPT !.pc = "toHit",
                      !.targetHPBefore = target.health,
                      !.offhand = FALSE,
                      !.partId = mainHand.id,
                      !.weapon = mainHandWeapon,
                      !.cur = <<>>]

\* ------------------------------------------------------------------------
\* Initial states
\* ------------------------------------------------------------------------
\* the attacker's item documents
ItemDocs ==
  [sword  |-> [id |-> "sword",  type |-> "weapon", pv |-> 1, damage |-> "1d8"],
   dagger |-> [id |-> "dagger", type |-> "weapon", pv |-> 0, damage |-> "1d4"],
   shield |-> [id |-> "shield", type |-> "armor"]]

\* a body in key order; offhand chances as the last recomputation stored them
BodyOf(headEq, leftEq, rightEq, muts) ==
  LET raw == << [id |-> "body",  type |-> "Body", equipment |-> ""],
                [id |-> "head",  type |-> "Head", equipment |-> headEq],
                [id |-> "lhand", type |-> "Hand", equipment |-> leftEq],
                [id |-> "rhand", type |-> "Hand", equipment |-> rightEq] >>
  IN [i \in 1..Len(raw) |->
        [offhandChance |-> calculateOffhandChance(raw[i], muts)] @@ raw[i]]

InitWorld ==
  /\ items = ItemDocs
  /\ \E horns \in BOOLEAN, leftEq \in {"", "dagger", "shield"}, rightEq \in {"", "sword"} :
       /\ mutations = [Horns |-> [isActive |-> horns, level |-> 1]]
       /\ bodyParts = BodyOf("", leftEq, rightEq, mutations)
  /\ \E mainHandId \in {"", "rhand", "head", "tail"} :
       combat = [mainHandId |-> mainHandId, pv |-> 2]
  /\ agility = [mod |-> 1]
  /\ target = [health |-> 3, dv |-> 6, av |-> 4, lastDamageTurn |-> <<>>]

\* the attack specifications leave the sheet data, the id counter and the
\* call history alone
InitSheet ==
  /\ actor = [level |-> 1]
  /\ bodyPartIdCounter = 0
  /\ calls = <<>>

Init ==
  /\ InitWorld
  /\ InitSheet
  /\ inv = [a \in Attacks |-> IdleFrame]

\* one fixed actor for the specifications that call the dice engine directly
InitDice ==
  /\ items = ItemDocs
  /\ mutations = [Horns |-> [isActive |-> FALSE, level |-> 1]]
  /\ bodyParts = BodyOf("", "", "sword", mutations)
  /\ combat = [mainHandId |-> "rhand", pv |-> 2]
  /\ agility = [mod |-> 1]
  /\ target = [health |-> 3, dv |-> 6, av |-> 4, lastDamageTurn |-> <<>>]
  /\ InitSheet
  /\ inv = [a \in Attacks |-> IdleFrame]

\* ------------------------------------------------------------------------
\* Actions: one per stretch of code between two awaits
\* ------------------------------------------------------------------------
Set(a, f) == inv' = [inv EXCEPT ![a] = f]
Sheet == <<actor, bodyPartIdCounter, calls>>
World == <<bodyParts, items, mutations, combat, agility, target, Sheet>>

\* a direct call of rollQudSinglet()
callRollQudSinglet(a) ==
  /\ inv[a].pc = "idle"
  /\ Set(a, [inv[a] EXCEPT !.entry = "rollQudSinglet", !.pc = "singlet",
                           !.singlets = <<SingletStart>>])
  /\ UNCHANGED World

\* a direct call of resolvePenetration(attackerPV, defenderAV)
callResolvePenetration(a, attackerPV, defenderAV) ==
  /\ inv[a].pc = "idle"
  /\ Set(a, EnterPenetration([inv[a] EXCEPT !.entry = "resolvePenetration",
                                             !.args = <<attackerPV, defenderAV>>],
                             attackerPV, defenderAV))
  /\ UNCHANGED World

ChainCap(f) == IF f.entry = "rollQudSinglet" THEN MaxChain ELSE MaxTripletChain

\* rollQudSinglet: the awaited 1d10 of singlet i arrives
rollQudSingletDie(a, i, dieResult) ==
  LET f == inv[a] IN
  /\ f.pc \in {"singlet", "triplet"}
  /\ i \in 1..Len(f.singlets)
  /\ f.singlets[i].continueRolling
  /\ dieResult = 10 => Len(f.singlets[i].rolls) + 1 < ChainCap(f)
  /\ LET s == rollQudSingletStep(f.singlets[i], dieResult)
         g == NoteDie([f EXCEPT !.singlets[i] = s,
                                !.delivered = IF f.entry = "rollQudSinglet"
                                              THEN Append(@, dieResult) ELSE @],
                      "d10")
     IN Set(a, IF f.entry = "rollQudSinglet" /\ ~s.continueRolling
               THEN [g EXCEPT !.pc = "returned", !.ret = rollQudSingletResult(s)]
               ELSE g)
rollQudSinglet(a, i, dieResult) ==
  /\ rollQudSingletDie(a, i, dieResult)
  /\ UNCHANGED World

\* rollQudTriplet after Promise.all, and resolvePenetration's loop body
rollQudTriplet(a) ==
  LET f == inv[a] IN
  /\ f.pc = "triplet"
  /\ \A i \in 1..3 : ~f.singlets[i].continueRolling
  /\ LET singlets == [i \in 1..3 |-> rollQudSingletResult(f.singlets[i])]
         triplet == rollQudTripletResult(singlets, f.pen.currentPV, f.pen.defenderAV)
         p == resolvePenetrationStep(f.pen, triplet)
         g == [f EXCEPT !.pen = p, !.singlets = <<>>]
     IN Set(a, IF resolvePenetrationLoop(p) THEN StartTriplet(g)
               ELSE PenetrationReturns(g))
  /\ UNCHANGED World

\* actor.mjs : rollMultiAttack(target) up to its first await
rollMultiAttack(a, targetOk) ==
  LET f == [inv[a] EXCEPT !.entry = "rollMultiAttack",
                          !.args = <<targetOk>>,
                          !.atCall = [mainHandId |-> combat.mainHandId,
                                      health |-> target.health]] IN
  /\ inv[a].pc = "idle"
  /\ Set(a, IF validateAttacker # "" THEN Throw(f, validateAttacker)
            ELSE IF ~targetOk THEN Throw(f, ErrInvalidTarget)
            ELSE IF Len(partsWithWeapons) = 1 /\ combat.mainHandId = ""
                 THEN [f EXCEPT !.pc = "designate",
                                !.pendingMainHandId = partsWithWeapons[1].id]
                 ELSE executeMultiWeaponAttackStart(f))
  /\ UNCHANGED World

\* the awaited update of system.combat.mainHandId lands
updateMainHandId(a) ==
  /\ inv[a].pc = "designate"
  /\ combat' = [combat EXCEPT !.mainHandId = inv[a].pendingMainHandId]
  /\ Set(a, [inv[a] EXCEPT !.pc = "execute", !.updated = TRUE])
  /\ UNCHANGED <<bodyParts, items, mutations, agility, target, Sheet>>

\* rollMultiAttack resumes and calls executeMultiWeaponAttack
executeMultiWeaponAttack(a) ==
  /\ inv[a].pc = "execute"
  /\ Set(a, executeMultiWeaponAttackStart(inv[a]))
  /\ UNCHANGED World

\* executeHandAttack: the awaited 1d20 + agiMod arrives
executeHandAttack(a, d20) ==
  /\ inv[a].pc = "toHit"
  /\ Set(a, executeHandAttackToHit(NoteDie(inv[a], "d20"), d20))
  /\ UNCHANGED World

\* executeHandAttack: an awaited damage roll arrives
rollDamage(a, total) ==
  /\ inv[a].pc = "damage"
  /\ Has(inv[a].weapon, "damage")
  /\ Set(a, executeHandAttackDamage(NoteDie(inv[a], "damage"), total))
  /\ UNCHANGED World

\* new Roll(undefined): the weapon is an item without a damage formula; the
\* host's Roll either evaluates the empty formula to 0 or throws
rollDamageNoFormula(a, throws) ==
  /\ inv[a].pc = "damage"
  /\ ~Has(inv[a].weapon, "damage")
  /\ Set(a, IF throws THEN Throw(inv[a], "Roll error")
            ELSE executeHandAttackDamage(NoteDie(inv[a], "damage"), 0))
  /\ UNCHANGED World

Triggers(percentResult, offhandChance) == percentResult <= offhandChance

\* executeOffhandAttack: the awaited 1d100 arrives
executeOffhandAttack(a, percentResult) ==
  LET f == NoteDie(inv[a], "d100")
      triggered == Triggers(percentResult, f.cur.offhandChance)
      result == [percentRoll |-> percentResult,
                 percentResult |-> percentResult,
                 triggered |-> triggered] @@ f.cur
  IN /\ inv[a].pc = "percent"
     /\ Set(a, IF ~triggered THEN HandReturns(f, result)
               ELSE [f EXCEPT !.pc = "toHit", !.cur = result])
     /\ UNCHANGED World

\* the awaited update of the target's system.health.value lands, and
\* executeMultiWeaponAttack reads the HP and returns; the update of the
\* definition in force names system.health.value only, lastDamageTurn (no
\* turn recorded: the empty sequence) keeps its value
applyDamage(a) ==
  /\ inv[a].pc = "applyDamage"
  /\ target' = [target EXCEPT !.health = inv[a].pendingHP]
  /\ Set(a, AttackReturn([inv[a] EXCEPT !.updated = TRUE],
                         inv[a].cur.totalDamage, inv[a].pendingHP))
  /\ UNCHANGED <<bodyParts, items, mutations, combat, agility, Sheet>>

\* rollMultiAttack: the awaited chat message is posted, the results returned
createCombatChatMessage(a) ==
  /\ inv[a].pc = "chat"
  /\ Set(a, [inv[a] EXCEPT !.pc = "done"])
  /\ UNCHANGED World

\* ------------------------------------------------------------------------
\* Specifications
\* ------------------------------------------------------------------------
\* one attack, from the click to the posted chat message
Next ==
  \/ \E targetOk \in BOOLEAN : rollMultiAttack("A1", targetOk)
  \/ updateMainHandId("A1")
  \/ executeMultiWeaponAttack("A1")
  \/ \E d20 \in D20Sample : executeHandAttack("A1", d20)
  \/ \E i \in 1..3, d10 \in D10Attack : rollQudSinglet("A1", i, d10)
  \/ rollQudTriplet("A1")
  \/ \E total \in DamageSample : rollDamage("A1", total)
  \/ \E throws \in BOOLEAN : rollDamageNoFormula("A1", throws)
  \/ \E d100 \in D100Sample : executeOffhandAttack("A1", d100)
  \/ applyDamage("A1")
  \/ createCombatChatMessage("A1")

Spec == Init /\ [][Next]_vars

\* two attack clicks whose invocations may overlap; the dice show fixed faces
NextOverlap ==
  \E a \in Attacks :
    \/ rollMultiAttack(a, TRUE)
    \/ updateMainHandId(a)
    \/ executeMultiWeaponAttack(a)
    \/ \E d20 \in D20Fixed : executeHandAttack(a, d20)
    \/ \E i \in 1..3, d10 \in D10Fixed : rollQudSinglet(a, i, d10)
    \/ rollQudTriplet(a)
    \/ \E total \in DamageFixed : rollDamage(a, total)
    \/ \E throws \in BOOLEAN : rollDamageNoFormula(a, throws)
    \/ \E d100 \in D100Fixed : executeOffhandAttack(a, d100)
    \/ applyDamage(a)
    \/ createCombatChatMessage(a)

SpecOverlap == Init /\ [][NextOverlap]_vars

\* the singlet on its own, with every face of the d10
NextSinglet ==
  \E a \in Attacks :
    \/ callRollQudSinglet(a)
    \/ \E d10 \in D10 : rollQudSinglet(a, 1, d10)

SpecSinglet == InitDice /\ [][NextSinglet]_vars

\* the penetration sequence on its own
NextPenetration ==
  \/ \E attackerPV \in (-1)..MaxPV, defenderAV \in AVSample :
       callResolvePenetration("A1", attackerPV, defenderAV)
  \/ \E i \in 1..3, d10 \in D10Sample : rollQudSinglet("A1", i, d10)
  \/ rollQudTriplet("A1")

SpecPenetration == InitDice /\ [][NextPenetration]_vars

\* the triplets of one penetration sequence, with the dice noted in calls in
\* the order in which they arrive: the triplet, the singlet that asked, the face
rollQudSingletNoted(a, i, dieResult) ==
  /\ rollQudSingletDie(a, i, dieResult)
  /\ calls' = Append(calls, [triplet |-> Len(inv[a].pen.triplets) + 1,
                              singlet |-> i, raw |-> dieResult])
  /\ UNCHANGED <<bodyParts, items, mutations, combat, agility, target, actor,
                 bodyPartIdCounter>>

D10Triplet == {3, 10}
TripletPV == {1, 2}
NextTriplet ==
  \/ \E attackerPV \in TripletPV, defenderAV \in AVSample :
       callResolvePenetration("A1", attackerPV, defenderAV)
  \/ \E i \in 1..3, d10 \in D10Triplet : rollQudSingletNoted("A1", i, d10)
  \/ rollQudTriplet("A1")

SpecTriplet == InitDice /\ [][NextTriplet]_vars

\* one attack with a sword in the right hand and nothing, a dagger or a shield
\* in the left; the d10 may explode, and the awaited rolls and updates arrive
D10Live == {1, 5, 10}
InitLive ==
  /\ items = ItemDocs
  /\ mutations = [Horns |-> [isActive |-> FALSE, level |-> 1]]
  /\ \E leftEq \in {"", "dagger", "shield"} :
       bodyParts = BodyOf("", leftEq, "sword", mutations)
  /\ \E mainHandId \in {"", "rhand"} : combat = [mainHandId |-> mainHandId, pv |-> 2]
  /\ agility = [mod |-> 1]
  /\ target = [health |-> 3, dv |-> 6, av |-> 4, lastDamageTurn |-> <<>>]
  /\ InitSheet
  /\ inv = [a \in Attacks |-> IdleFrame]

\* the steps the host takes on its own once the attack waits for them
HostStep ==
  \/ updateMainHandId("A1")
  \/ executeMultiWeaponAttack("A1")
  \/ \E d20 \in D20Sample : executeHandAttack("A1", d20)
  \/ rollQudTriplet("A1")
  \/ \E total \in DamageFixed : rollDamage("A1", total)
  \/ \E throws \in BOOLEAN : rollDamageNoFormula("A1", throws)
  \/ \E d100 \in D100Sample : executeOffhandAttack("A1", d100)
  \/ applyDamage("A1")
  \/ createCombatChatMessage("A1")

\* singlet i rolls a face other than 10
rollsOtherThanTen(i) == \E d10 \in D10Live \ {10} : rollQudSinglet("A1", i, d10)

NextLive ==
  \/ rollMultiAttack("A1", TRUE)
  \/ HostStep
  \/ \E i \in 1..3 : rollQudSinglet("A1", i, 10)
  \/ \E i \in 1..3 : rollsOtherThanTen(i)

\* every awaited roll, update and message arrives, and every singlet that is
\* rolling eventually rolls a face other than 10
SpecLive ==
  /\ InitLive /\ [][NextLive]_vars
  /\ WF_vars(HostStep)
  /\ \A i \in 1..3 : WF_vars(rollsOtherThanTen(i))

\* ========================================================================
\* The body hierarchy (body-parts.mjs) and the actor's body handlers
\* ========================================================================
\* CAVESOFQUD.bodyPartTypes : the known types, those with canEquip, and the
\* slotType of each
BodyPartTypes ==
  {"Body", "Head", "Face", "Back", "Arm", "Hand", "BurrowingClaw", "Feet",
   "FloatingNearby", "Tail", "Fin", "Roots", "Tread", "FungalOutcrop",
   "IcyOutcrop"}
CanEquipTypes ==
  {"Body", "Head", "Face", "Back", "Arm", "Hand", "BurrowingClaw", "Feet",
   "FloatingNearby", "Roots", "Tread"}
SlotTypeOf(type) ==
  CASE type = "Body" -> "body"
    [] type = "Head" -> "head"
    [] type = "Face" -> "face"
    [] type = "Back" -> "back"
    [] type = "Arm" -> "arm"
    [] type \in {"Hand", "BurrowingClaw"} -> "hand"
    [] type = "Feet" -> "feet"
    [] type = "FloatingNearby" -> "floating"
    [] type = "Tail" -> "tail"
    [] type = "Fin" -> "fin"
    [] type = "Roots" -> "roots"
    [] type = "Tread" -> "tread"
    [] type = "FungalOutcrop" -> "fungal"
    [] type = "IcyOutcrop" -> "icy"

canEquipItem(part) == part.type \in CanEquipTypes

\* body(v) for the value v of an expression, which is computed once
Let(value, body(_)) == CHOOSE out \in {body(v) : v \in {value}} : TRUE

\* a sequence as a set
Range(s) == {s[i] : i \in 1..Len(s)}

\* bodyParts[id] on a hierarchy ps kept in key order
HasPart(ps, id) == \E i \in 1..Len(ps) : ps[i].id = id
IndexOfPart(ps, id) == CHOOSE i \in 1..Len(ps) : ps[i].id = id
GetPart(ps, id) == IF HasPart(ps, id) THEN ps[IndexOfPart(ps, id)] ELSE Nothing
PartIdsOf(ps) == {ps[i].id : i \in 1..Len(ps)}

\* `bp_${Date.now()}_${bodyPartIdCounter++}` : the counter is what tells two
\* ids apart
generateBodyPartId(counter) == "bp_" \o ToString(counter)

\* null for an unknown type, otherwise a fresh unlinked leaf
createBodyPart(type, laterality, parentId, chimeraOrigin, counter) ==
  IF type \notin BodyPartTypes THEN Nothing
  ELSE [id |-> generateBodyPartId(counter), type |-> type,
        laterality |-> laterality, parent |-> parentId, children |-> <<>>,
        equipment |-> "", chimeraOrigin |-> chimeraOrigin]

\* addBodyPart: null when the parent is absent; a TypeError when the type is
\* unknown (createBodyPart returned null and newPart.id is read)
addBodyPart(ps, counter, type, parentId, laterality) ==
  IF ~HasPart(ps, parentId)
  THEN [parts |-> ps, counter |-> counter, part |-> Nothing, threw |-> FALSE]
  ELSE LET newPart == createBodyPart(type, laterality, parentId, FALSE, counter)
       IN IF ~IsSome(newPart)
          THEN [parts |-> ps, counter |-> counter, part |-> Nothing, threw |-> TRUE]
          ELSE [parts |-> Append([ps EXCEPT ![IndexOfPart(ps, parentId)].children =
                                               Append(@, newPart.id)],
                                 newPart),
                counter |-> counter + 1, part |-> newPart, threw |-> FALSE]

\* removeBodyPart's collectDescendants: every child, then its descendants
RECURSIVE collectDescendants(_, _), collectChildren(_, _)
collectChildrenMutant(ps, children) == children
collectChildren(ps, children) ==
  IF children = <<>> THEN <<>>
  ELSE <<Head(children)>> \o collectDescendants(ps, Head(children))
         \o collectChildren(ps, Tail(children))
collectDescendants(ps, id) ==
  IF ~HasPart(ps, id) THEN <<>> ELSE collectChildren(ps, GetPart(ps, id).children)

UnlinkedMutant(ps, partId) == ps
Unlinked(ps, partId) ==
  LET part == GetPart(ps, partId)
  IN IF part.parent # "" /\ HasPart(ps, part.parent)
     THEN [ps EXCEPT ![IndexOfPart(ps, part.parent)].children =
                        SelectSeq(@, LAMBDA id : id # partId)]
     ELSE ps

removeBodyPart(ps, partId) ==
  IF ~HasPart(ps, partId) THEN [parts |-> ps, removedIds |-> <<>>]
  ELSE LET removedIds == <<partId>> \o collectDescendants(ps, partId)
       IN [parts |-> SelectSeq(Unlinked(ps, partId),
                               LAMBDA p : p.id \notin Range(removedIds)),
           removedIds |-> removedIds]

\* addBodyPartWithChildren's loop over withChildren
RECURSIVE addChildren(_, _, _, _, _, _, _)
addChildren(ps, counter, withChildren, mainId, laterality, chimeraOrigin, addedIds) ==
  IF withChildren = <<>>
  THEN [parts |-> ps, counter |-> counter, addedIds |-> addedIds, threw |-> FALSE]
  ELSE Let(addBodyPart(ps, counter, Head(withChildren), mainId, laterality),
           LAMBDA r :
             IF r.threw
             THEN [parts |-> r.parts, counter |-> r.counter, addedIds |-> addedIds,
                   threw |-> TRUE]
             ELSE IF ~IsSome(r.part)
             THEN addChildren(ps, counter, Tail(withChildren), mainId, laterality,
                              chimeraOrigin, addedIds)
             ELSE Let([parts |-> [r.parts EXCEPT ![Len(r.parts)].chimeraOrigin =
                                                   chimeraOrigin],
                       addedIds |-> Append(addedIds, r.part.id)],
                      LAMBDA x :
                        addChildren(x.parts, r.counter, Tail(withChildren), mainId,
                                    laterality, chimeraOrigin, x.addedIds)))

addBodyPartWithChildren(ps, counter, type, parentId, laterality, withChildren, chimeraOrigin) ==
  Let(addBodyPart(ps, counter, type, parentId, laterality),
      LAMBDA r :
        IF r.threw \/ ~IsSome(r.part)
        THEN [parts |-> ps, counter |-> r.counter, addedIds |-> <<>>,
              threw |-> r.threw]
        ELSE Let([parts |-> [r.parts EXCEPT ![Len(r.parts)].chimeraOrigin =
                                              chimeraOrigin],
                  addedIds |-> <<r.part.id>>],
                 LAMBDA x :
                   addChildren(x.parts, r.counter, withChildren, r.part.id,
                               laterality, chimeraOrigin, x.addedIds)))

\* createHumanoidBody: the root, the head with its face, the back, each arm
\* with its hand, the feet and the floating slot, every part pushed onto its
\* parent's children as it is created
createHumanoidBody(counter) ==
  LET id(k) == generateBodyPartId(counter + k)
      made(k, type, laterality, parentId, children) ==
        [createBodyPart(type, laterality, parentId, FALSE, counter + k)
           EXCEPT !.children = children]
  IN [parts |-> << made(0, "Body", "", "", <<id(1), id(3), id(4), id(6), id(8), id(9)>>),
                   made(1, "Head", "", id(0), <<id(2)>>),
                   made(2, "Face", "", id(1), <<>>),
                   made(3, "Back", "", id(0), <<>>),
                   made(4, "Arm", "Left", id(0), <<id(5)>>),
                   made(5, "Hand", "Left", id(4), <<>>),
                   made(6, "Arm", "Right", id(0), <<id(7)>>),
                   made(7, "Hand", "Right", id(6), <<>>),
                   made(8, "Feet", "", id(0), <<>>),
                   made(9, "FloatingNearby", "", id(0), <<>>) >>,
      root |-> id(0),
      counter |-> counter + 10]

\* rollChimeraBodyPart: the type Math.random() lands on
ChimeraTypes ==
  {"Hand", "Arm", "Head", "Face", "Feet", "Fin", "Tail", "Roots", "FungalOutcrop"}

\* selectRandomParent: any existing part, null for an empty hierarchy
selectRandomParent(ps) == IF ps = <<>> THEN {""} ELSE PartIdsOf(ps)

\* ------------------------------------------------------------------------
\* actor.mjs : the body handlers, as functions of the documents they read and
\* write (st = the actor's bodyParts, bodyRoot, items and mutation items, and
\* the module's id counter)
\* ------------------------------------------------------------------------
\* this.items.get(id) on the documents of st
ItemOf(its, id) == IF id \in DOMAIN its THEN its[id] ELSE Nothing

\* isEquipmentBlocked that never finds a block
isEquipmentBlockedMutant(muts, bodyPart, itemType) == FALSE
\* isEquipmentBlocked: some active mutation blocks this item type on this
\* part type
isEquipmentBlocked(muts, bodyPart, itemType) ==
  \E m \in DOMAIN muts :
    /\ muts[m].isActive
    /\ bodyPart.type \in DOMAIN muts[m].blockedEquipment
    /\ itemType \in muts[m].blockedEquipment[bodyPart.type]

\* this.update({'system.bodyParts': bps}) : the document takes the value it is
\* given
update(st, bps) == [st EXCEPT !.bodyParts = bps]

SetEquipped(its, itemId, flag) == [its EXCEPT ![itemId].equipped = flag]

unequipFromBodyPart(st, partId) ==
  LET part == GetPart(st.bodyParts, partId)
  IN IF ~IsSome(part) \/ part.equipment = "" THEN [st |-> st, ret |-> FALSE]
     ELSE LET itemId == part.equipment
              bps == [st.bodyParts EXCEPT
                        ![IndexOfPart(st.bodyParts, partId)].equipment = ""]
              stillEquipped == \E i \in 1..Len(bps) : bps[i].equipment = itemId
          IN [st |-> [update(st, bps) EXCEPT
                        !.items = IF itemId \in DOMAIN st.items /\ ~stillEquipped
                                  THEN SetEquipped(@, itemId, FALSE) ELSE @],
              ret |-> TRUE]

equipToBodyPart(st, itemId, partId) ==
  LET item == ItemOf(st.items, itemId)
      part == GetPart(st.bodyParts, partId)
  IN IF ~IsSome(item) \/ ~IsSome(part) THEN [st |-> st, ret |-> FALSE]
     ELSE IF ~canEquipItem(part) THEN [st |-> st, ret |-> FALSE]
     ELSE IF item.type = "armor" /\ item.slot # SlotTypeOf(part.type)
     THEN [st |-> st, ret |-> FALSE]
     ELSE IF item.type = "weapon" /\ ~canWieldWeapon(part) THEN [st |-> st, ret |-> FALSE]
     ELSE IF isEquipmentBlocked(st.mutations, part, item.type) THEN [st |-> st, ret |-> FALSE]
     ELSE Let(IF part.equipment # "" THEN unequipFromBodyPart(st, partId).st ELSE st,
              LAMBDA freed :
                [st |-> [update(freed,
                                [freed.bodyParts EXCEPT
                                   ![IndexOfPart(freed.bodyParts, partId)].equipment =
                                     itemId])
                           EXCEPT !.items = IF ~freed.items[itemId].equipped
                                            THEN SetEquipped(@, itemId, TRUE) ELSE @],
                 ret |-> TRUE])

addBodyPartMutation(st, type, parentId, laterality, withChildren, chimeraOrigin) ==
  Let(addBodyPartWithChildren(st.bodyParts, st.counter, type, parentId,
                              laterality, withChildren, chimeraOrigin),
      LAMBDA r :
        [st |-> IF ~r.threw /\ Len(r.addedIds) > 0
                THEN update([st EXCEPT !.counter = r.counter], r.parts)
                ELSE [st EXCEPT !.counter = r.counter],
         ret |-> IF r.threw THEN <<>> ELSE r.addedIds,
         threw |-> r.threw])

\* removeBodyPartMutation's collectEquipment: the part's item, then its
\* children's
RECURSIVE collectEquipment(_, _), collectEquipmentOf(_, _)
collectEquipmentOf(ps, children) ==
  IF children = <<>> THEN <<>>
  ELSE collectEquipment(ps, Head(children)) \o collectEquipmentOf(ps, Tail(children))
collectEquipment(ps, id) ==
  IF ~HasPart(ps, id) THEN <<>>
  ELSE LET p == GetPart(ps, id)
       IN (IF p.equipment # "" THEN <<p.equipment>> ELSE <<>>)
            \o collectEquipmentOf(ps, p.children)

\* the loop that marks the collected items as not equipped
RECURSIVE unequipAll(_, _)
unequipAllMutant(its, toUnequip) == its
unequipAll(its, toUnequip) ==
  IF toUnequip = <<>> THEN its
  ELSE LET itemId == Head(toUnequip)
       IN unequipAll(IF itemId \in DOMAIN its /\ its[itemId].equipped
                     THEN SetEquipped(its, itemId, FALSE) ELSE its,
                     Tail(toUnequip))

removeBodyPartMutation(st, partId) ==
  IF ~HasPart(st.bodyParts, partId) THEN [st |-> st, ret |-> <<>>]
  ELSE Let([toUnequip |-> collectEquipment(st.bodyParts, partId),
            removed |-> removeBodyPart(st.bodyParts, partId)],
           LAMBDA r :
             IF Len(r.removed.removedIds) > 0
             THEN [st |-> [update(st, r.removed.parts) EXCEPT
                             !.items = unequipAll(@, r.toUnequip)],
                   ret |-> r.removed.removedIds]
             ELSE [st |-> st, ret |-> r.removed.removedIds])

\* applyMutation's 'replace' branch over every part, in key order
replacePartsMutant(ps, mod) ==
  [i \in 1..Len(ps) |->
     IF ps[i].type = mod.targetType
     THEN [ps[i] EXCEPT !.type = mod.newType, !.equipment = ""]
     ELSE ps[i]]
replaceParts(ps, mod) ==
  [i \in 1..Len(ps) |->
     IF ps[i].type = mod.targetType
     THEN [ps[i] EXCEPT !.type = mod.newType,
                        !.equipment = IF ~mod.preserveEquipment THEN "" ELSE @]
     ELSE ps[i]]
replacedIds(ps, mod) ==
  LET hit == SelectSeq(ps, LAMBDA p : p.type = mod.targetType)
  IN [i \in 1..Len(hit) |-> hit[i].id]

\* the children applyMutation adds on its own for a chimera part
AutoChildren(mod, partType) ==
  IF mod.withChildren = <<>> /\ mod.chimeraOrigin
  THEN IF partType = "Arm" THEN <<"Hand">>
       ELSE IF partType = "Head" THEN <<"Face">> ELSE <<>>
  ELSE mod.withChildren

\* applyMutation's loop over bodyModifications; randomParent and randomType
\* are what selectRandomParent and rollChimeraBodyPart return
RECURSIVE applyModifications(_, _, _, _, _)
applyModifications(st, mods, allAddedIds, randomParent, randomType) ==
  IF mods = <<>> THEN [st |-> st, allAddedIds |-> allAddedIds, threw |-> FALSE]
  ELSE LET mod == Head(mods)
       IN IF mod.action = "replace"
          THEN Let([st |-> update(st, replaceParts(st.bodyParts, mod)),
                    ids |-> allAddedIds \o replacedIds(st.bodyParts, mod)],
                   LAMBDA r :
                     applyModifications(r.st, Tail(mods), r.ids, randomParent,
                                        randomType))
          ELSE LET parentId == IF mod.parent = "random" THEN randomParent
                               ELSE IF mod.parent = "Body" THEN st.bodyRoot
                               ELSE mod.parent
                   partType == IF mod.type = "random" THEN randomType ELSE mod.type
               IN Let(addBodyPartMutation(st, partType, parentId, mod.laterality,
                                          AutoChildren(mod, partType),
                                          mod.chimeraOrigin),
                      LAMBDA r :
                        IF r.threw
                        THEN [st |-> r.st, allAddedIds |-> allAddedIds, threw |-> TRUE]
                        ELSE Let(allAddedIds \o r.ret,
                                 LAMBDA ids :
                                   applyModifications(r.st, Tail(mods), ids,
                                                      randomParent, randomType)))

Tracked(allAddedIds, addedBodyParts) == allAddedIds

applyMutation(st, name, randomParent, randomType) ==
  Let(applyModifications(st, st.mutations[name].bodyModifications, <<>>,
                         randomParent, randomType),
      LAMBDA r :
        IF r.threw THEN [st |-> r.st, ret |-> <<>>, threw |-> TRUE]
        ELSE [st |-> [r.st EXCEPT
                        !.mutations[name].addedBodyParts = Tracked(r.allAddedIds, @),
                        !.mutations[name].isActive = TRUE],
              ret |-> r.allAddedIds, threw |-> FALSE])

\* removeMutation's restoring loop over the 'replace' modifications
RECURSIVE restoreParts(_, _, _, _)
restoreParts(ps, mods, addedParts, allRemovedIds) ==
  IF mods = <<>> THEN [parts |-> ps, allRemovedIds |-> allRemovedIds]
  ELSE LET mod == Head(mods)
           hit == SelectSeq(ps, LAMBDA p : p.type = mod.newType
                                           /\ p.id \in Range(addedParts))
       IN IF mod.action = "replace"
          THEN Let([parts |-> [i \in 1..Len(ps) |->
                                 IF ps[i].type = mod.newType
                                    /\ ps[i].id \in Range(addedParts)
                                 THEN [ps[i] EXCEPT !.type = mod.targetType]
                                 ELSE ps[i]],
                    ids |-> allRemovedIds \o [i \in 1..Len(hit) |-> hit[i].id]],
                   LAMBDA r : restoreParts(r.parts, Tail(mods), addedParts, r.ids))
          ELSE restoreParts(ps, Tail(mods), addedParts, allRemovedIds)

\* removeMutation's deleting loop over the tracked ids
RECURSIVE removeAddedParts(_, _, _)
removeAddedPartsMutant(st, addedParts, allRemovedIds) ==
  [st |-> st, allRemovedIds |-> allRemovedIds \o addedParts]
removeAddedParts(st, addedParts, allRemovedIds) ==
  IF addedParts = <<>> THEN [st |-> st, allRemovedIds |-> allRemovedIds]
  ELSE Let(removeBodyPartMutation(st, Head(addedParts)),
           LAMBDA r :
             Let(allRemovedIds \o r.ret,
                 LAMBDA ids : removeAddedParts(r.st, Tail(addedParts), ids)))

removeMutation(st, name) ==
  LET addedParts == st.mutations[name].addedBodyParts
      modifications == st.mutations[name].bodyModifications
      hasReplaceActions == \E i \in 1..Len(modifications) :
                             modifications[i].action = "replace"
  IN Let(IF hasReplaceActions
         THEN Let(restoreParts(st.bodyParts, modifications, addedParts, <<>>),
                  LAMBDA x : [st |-> update(st, x.parts),
                              allRemovedIds |-> x.allRemovedIds])
         ELSE removeAddedParts(st, addedParts, <<>>),
         LAMBDA r :
           [st |-> [r.st EXCEPT !.mutations[name].addedBodyParts = <<>>,
                                !.mutations[name].isActive = FALSE],
            ret |-> r.allRemovedIds])

\* ------------------------------------------------------------------------
\* The body specification: a character sheet whose body is edited
\* ------------------------------------------------------------------------
\* bound: the calls one behaviour of the body specification makes
MaxCalls == 3

\* the items of the sheet
BodyItemDocs ==
  [sword  |-> [id |-> "sword", type |-> "weapon", pv |-> 1, damage |-> "1d8",
               equipped |-> FALSE],
   helmet |-> [id |-> "helmet", type |-> "armor", slot |-> "head", av |-> 1,
               dvModifier |-> 0, equipped |-> FALSE]]

\* README.md : the mutation items the setup script creates
AddModification(type, parent, laterality, withChildren, chimeraOrigin) ==
  [action |-> "add", type |-> type, parent |-> parent, laterality |-> laterality,
   withChildren |-> withChildren, chimeraOrigin |-> chimeraOrigin]
MutationDoc(bodyModifications, blockedEquipment) ==
  [isActive |-> FALSE, level |-> 1, bodyModifications |-> bodyModifications,
   addedBodyParts |-> <<>>, blockedEquipment |-> blockedEquipment]
NoBlockedEquipment == [t \in {} |-> {}]
MutationDocs ==
  [TwoHeaded |->
     MutationDoc(<<AddModification("Head", "Body", "", <<"Face">>, FALSE)>>,
                 NoBlockedEquipment),
   Chimera |->
     MutationDoc(<<AddModification("random", "random", "", <<>>, TRUE)>>,
                 NoBlockedEquipment),
   BurrowingClaws |->
     MutationDoc(<<[action |-> "replace", targetType |-> "Hand",
                    newType |-> "BurrowingClaw", preserveEquipment |-> TRUE]>>,
                 NoBlockedEquipment),
   Horns |-> MutationDoc(<<>>, [Head |-> {"armor"}])]

\* the parts of a hierarchy that have one of these types
PartsOfType(ps, types) == {ps[i].id : i \in {j \in 1..Len(ps) : ps[j].type \in types}}

\* the inputs the body specification draws: the parts an item is put on, the
\* parts that are removed, and the parents and types of the parts that are added
EquipParts == PartsOfType(bodyParts, {"Hand", "BurrowingClaw", "Head"})
EquipInputs ==
  ({"sword"} \X EquipParts) \cup ({"helmet"} \X PartsOfType(bodyParts, {"Head"}))
RemoveParts == PartsOfType(bodyParts, {"Hand", "BurrowingClaw", "Head", "Arm"})
AddParents == PartsOfType(bodyParts, {"Body"})
ChimeraParents ==
  selectRandomParent(bodyParts) \cap PartsOfType(bodyParts, {"Head"})
ChimeraSample == {"Arm"}
BodyMutations == {"TwoHeaded", "Chimera", "BurrowingClaws"}

\* the documents a handler reads and writes
St ==
  [bodyParts |-> bodyParts, items |-> items, mutations |-> mutations,
   counter |-> bodyPartIdCounter, bodyRoot |-> actor.bodyRoot]

Commit(st) ==
  /\ bodyParts' = st.bodyParts
  /\ items' = st.items
  /\ mutations' = st.mutations
  /\ bodyPartIdCounter' = st.counter
  /\ actor' = [actor EXCEPT !.bodyRoot = st.bodyRoot]

\* a new character: _preCreate stored a humanoid body
InitBody ==
  /\ LET humanoidBody == createHumanoidBody(0)
     IN /\ bodyParts = humanoidBody.parts
        /\ actor = [bodyRoot |-> humanoidBody.root]
        /\ bodyPartIdCounter = humanoidBody.counter
  /\ items = BodyItemDocs
  /\ mutations = MutationDocs
  /\ combat = [mainHandId |-> "", pv |-> 4]
  /\ agility = [mod |-> 0]
  /\ target = [health |-> 3, dv |-> 6, av |-> 4, lastDamageTurn |-> <<>>]
  /\ inv = [a \in Attacks |-> IdleFrame]
  /\ calls = <<>>

Rest == <<combat, agility, target, inv>>

\* a completed call enters the history with the documents it found
Called(op, args, ret) ==
  /\ Len(calls) < MaxCalls
  /\ calls' = Append(calls, [op |-> op, args |-> args, ret |-> ret, before |-> St])

\* a handler runs on the documents as they are and stores what it wrote
Handle(op, args, run(_)) ==
  \E r \in {run(st) : st \in {St}} :
    /\ Commit(r.st)
    /\ Called(op, args, r.ret)
    /\ UNCHANGED Rest

callEquipToBodyPart(itemId, partId) ==
  Handle("equipToBodyPart", <<itemId, partId>>,
         LAMBDA st : equipToBodyPart(st, itemId, partId))

callUnequipFromBodyPart(partId) ==
  Handle("unequipFromBodyPart", <<partId>>,
         LAMBDA st : unequipFromBodyPart(st, partId))

callAddBodyPartMutation(type, parentId, withChildren) ==
  Handle("addBodyPartMutation", <<type, parentId, withChildren>>,
         LAMBDA st : addBodyPartMutation(st, type, parentId, "", withChildren, FALSE))

callRemoveBodyPartMutation(partId) ==
  Handle("removeBodyPartMutation", <<partId>>,
         LAMBDA st : removeBodyPartMutation(st, partId))

callApplyMutation(name, randomParent, randomType) ==
  Handle("applyMutation", <<name>>,
         LAMBDA st : applyMutation(st, name, randomParent, randomType))

callRemoveMutation(name) ==
  Handle("removeMutation", <<name>>, LAMBDA st : removeMutation(st, name))

NextBody ==
  \/ \E input \in EquipInputs : callEquipToBodyPart(input[1], input[2])
  \/ \E partId \in EquipParts : callUnequipFromBodyPart(partId)
  \/ \E parentId \in AddParents : callAddBodyPartMutation("Hand", parentId, <<>>)
  \/ \E partId \in RemoveParts : callRemoveBodyPartMutation(partId)
  \/ \E name \in BodyMutations \ {"Chimera"} : callApplyMutation(name, "", "")
  \/ \E randomParent \in ChimeraParents, randomType \in ChimeraSample :
       callApplyMutation("Chimera", randomParent, randomType)
  \/ \E name \in BodyMutations : callRemoveMutation(name)

SpecBody == InitBody /\ [][NextBody]_vars

\* ------------------------------------------------------------------------
\* The part specification: addBodyPart and removeBodyPart called directly on
\* the hierarchy
\* ------------------------------------------------------------------------
\* an id that names no part
MissingId == "bp_missing"

callAddBodyPart(type, parentId) ==
  LET r == addBodyPart(bodyParts, bodyPartIdCounter, type, parentId, "")
  IN /\ bodyParts' = r.parts
     /\ bodyPartIdCounter' = r.counter
     /\ Called("addBodyPart", <<type, parentId>>,
               IF r.threw THEN [id |-> "", threw |-> "TypeError"] ELSE r.part)
     /\ UNCHANGED <<items, mutations, actor, Rest>>

callRemoveBodyPart(partId) ==
  LET r == removeBodyPart(bodyParts, partId)
  IN /\ bodyParts' = r.parts
     /\ Called("removeBodyPart", <<partId>>, r.removedIds)
     /\ UNCHANGED <<items, mutations, actor, bodyPartIdCounter, Rest>>

NextParts ==
  \/ \E type \in {"Hand", "Wing"},
        parentId \in PartsOfType(bodyParts, {"Body", "Hand"}) \cup {MissingId} :
       callAddBodyPart(type, parentId)
  \/ \E partId \in PartIdsOf(bodyParts) \cup {MissingId} : callRemoveBodyPart(partId)

SpecParts == InitBody /\ [][NextParts]_vars

\* ------------------------------------------------------------------------
\* The hierarchy specification: createHumanoidBody for a newly created actor
\* and addBodyPartWithChildren called directly on the hierarchy, which it
\* changes in place (what it added before a TypeError stays added)
\* ------------------------------------------------------------------------
callCreateHumanoidBody ==
  \E humanoidBody \in {createHumanoidBody(bodyPartIdCounter)} :
    /\ bodyParts' = humanoidBody.parts
    /\ actor' = [bodyRoot |-> humanoidBody.root]
    /\ bodyPartIdCounter' = humanoidBody.counter
    /\ Called("createHumanoidBody", <<>>,
              [parts |-> humanoidBody.parts, root |-> humanoidBody.root])
    /\ UNCHANGED <<items, mutations, Rest>>

callAddBodyPartWithChildren(type, parentId, withChildren) ==
  \E r \in {addBodyPartWithChildren(bodyParts, bodyPartIdCounter, type, parentId,
                                    "", withChildren, FALSE)} :
    /\ bodyParts' = r.parts
    /\ bodyPartIdCounter' = r.counter
    /\ Called("addBodyPartWithChildren", <<type, parentId, withChildren>>,
              [addedIds |-> r.addedIds, threw |-> r.threw])
    /\ UNCHANGED <<items, mutations, actor, Rest>>

\* the child type lists that are tried; Wing is no body part type
ChildLists == {<<>>, <<"Hand">>, <<"Hand", "Wing">>, <<"Wing", "Hand">>}

NextHierarchy ==
  \/ callCreateHumanoidBody
  \/ \E parentId \in PartsOfType(bodyParts, {"Body"}) \cup {MissingId},
        withChildren \in ChildLists :
       callAddBodyPartWithChildren("Arm", parentId, withChildren)
  \/ \E withChildren \in ChildLists :
       callAddBodyPartWithChildren("Wing", actor.bodyRoot, withChildren)

SpecHierarchy == InitBody /\ [][NextHierarchy]_vars

\* ------------------------------------------------------------------------
\* JavaScript numbers (actor.mjs : avgAV, totalAV, hpRegen.rate).  The
\* averages and their running sums are IEEE-754 doubles: a value is kept
\* here as a sign and a magnitude in units of 2^-60, in three 22-bit limbs
\* (h, m, l), and every operation rounds its exact result to 53 significant
\* bits, ties to even.  The magnitudes that occur are below 64 and, when
\* not zero, at least 2^-7, so every double in range is exact on this grid.
\* ------------------------------------------------------------------------
Limb == 2^22
IntUnit == 2^16
Abs(k) == IF k < 0 THEN 0 - k ELSE k

RECURSIVE BitLen(_)
BitLen(n) == IF n = 0 THEN 0 ELSE 1 + BitLen(n \div 2)

\* number of significant bits of the magnitude h*Limb^2 + m*Limb + l
MagLen(h, m, l) ==
  IF h > 0 THEN 44 + BitLen(h) ELSE IF m > 0 THEN 22 + BitLen(m) ELSE BitLen(l)

\* carries between the limbs
Normalize(neg, h, m, l) ==
  LET m2 == m + (l \div Limb)
  IN [neg |-> neg, h |-> h + (m2 \div Limb), m |-> m2 % Limb, l |-> l % Limb]

\* round to nearest, ties to even, at 53 significant bits; sticky tells that
\* the exact value lies strictly above the magnitude given
RoundDouble(neg, h, m, l, sticky) ==
  LET d == MagLen(h, m, l) - 53
  IN IF d <= 0 THEN [neg |-> neg, h |-> h, m |-> m, l |-> l]
     ELSE LET p == 2^d
              low == l % p
              half == p \div 2
              odd == (l \div p) % 2 = 1
              up == low > half \/ (low = half /\ (sticky \/ odd))
          IN Normalize(neg, h, m, (l - low) + (IF up THEN p ELSE 0))

\* the double of a small integer
ToDouble(k) == [neg |-> k < 0, h |-> Abs(k) * IntUnit, m |-> 0, l |-> 0]

\* s / n for integers s and n > 0
NumberDivide(s, n) ==
  LET t1 == Abs(s) * IntUnit
      t2 == (t1 % n) * Limb
      t3 == (t2 % n) * Limb
  IN RoundDouble(s < 0, t1 \div n, t2 \div n, t3 \div n, t3 % n # 0)

MagLess(x, y) ==
  \/ x.h < y.h
  \/ x.h = y.h /\ x.m < y.m
  \/ x.h = y.h /\ x.m = y.m /\ x.l < y.l

\* big - small on the magnitudes, with borrows
MagMinus(neg, big, small) ==
  LET l == big.l - small.l
      bl == IF l < 0 THEN 1 ELSE 0
      m == big.m - small.m - bl
      bm == IF m < 0 THEN 1 ELSE 0
      h == big.h - small.h - bm
  IN RoundDouble(neg /\ (h # 0 \/ m # 0 \/ l # 0), h,
                 m + bm * Limb, l + bl * Limb, FALSE)

\* x + y
NumberAdd(x, y) ==
  IF x.neg = y.neg
  THEN LET s == Normalize(x.neg, x.h + y.h, x.m + y.m, x.l + y.l)
       IN RoundDouble(s.neg, s.h, s.m, s.l, FALSE)
  ELSE IF MagLess(x, y) THEN MagMinus(y.neg, y, x)
  ELSE MagMinus(x.neg, x, y)

\* Math.floor
MathFloor(x) ==
  LET whole == x.h \div IntUnit
      fraction == x.h % IntUnit # 0 \/ x.m # 0 \/ x.l # 0
  IN IF x.neg THEN 0 - whole - (IF fraction THEN 1 ELSE 0) ELSE whole

\* x * k for an integer k >= 0
NumberTimes(x, k) ==
  LET p == Normalize(x.neg /\ k # 0, x.h * k, x.m * k, x.l * k)
  IN RoundDouble(p.neg, p.h, p.m, p.l, FALSE)
\* ------------------------------------------------------------------------
\* actor.mjs : the stat derivation pipeline of a character.  systemData
\* (sd) is actor.system, recomputed in place; docs and muts are
\* actor.items, split into the equipment documents and the mutation
\* documents (in collection order, MutationOrder).
\* ------------------------------------------------------------------------
\* CAVESOFQUD.baseValues
dvBase == 6
pvBase == 4
maBase == 4
carryCapacityMultiplier == 15
skillPointsTrueKin == 70
skillPointsMutant == 50
skillPointsPerInt == 4
hpRegenBase == 20
hpRegenMultiplier == 2
cooldownReductionPercent == 5
cooldownReductionMax == 80
cooldownMinimum == 5

Min(a, b) == IF a <= b THEN a ELSE b

\* a field the code has not created yet (systemData.movement, .quickness)
Absent == [absent |-> TRUE]

\* the modifier rounded toward zero instead of down
calculateAttributeModifiersMutant(sd) ==
  [sd EXCEPT !.attributes =
     [key \in DOMAIN @ |->
        [@[key] EXCEPT !.mod = IF sd.attributes[key].value >= 16
                               THEN (sd.attributes[key].value - 16) \div 2
                               ELSE 0 - ((16 - sd.attributes[key].value) \div 2)]]]
\* attribute.mod = Math.floor((attribute.value - 16) / 2)
calculateAttributeModifiers(sd) ==
  [sd EXCEPT !.attributes =
     [key \in DOMAIN @ |-> [@[key] EXCEPT !.mod = (sd.attributes[key].value - 16) \div 2]]]

\* item.mjs : the mutation documents' armor grants (providesArmor)
ProvidesArmorType(name) ==
  IF name = "Horns" THEN "Head" ELSE IF name = "Quills" THEN "Back" ELSE ""

\* CAVESOFQUD.naturalWeaponFormulas[name].avFormula, evaluated at a level
avFormula(name, level) ==
  IF name = "Horns" THEN ((level - 1) \div 3) + 1
  ELSE IF name = "Quills" THEN 1 + (level \div 2)
  ELSE 0

\* the mutation documents among actor.items, in collection order
MutationOrder == <<"Wings", "Horns", "Quills", "MultipleLegs">>
ActiveMutations(muts) ==
  SelectSeq(MutationOrder, LAMBDA name : name \in DOMAIN muts /\ muts[name].isActive)

\* the natural armor the last granting mutation leaves on a part
RECURSIVE naturalArmorOf(_, _, _, _)
naturalArmorOf(part, muts, names, armor) ==
  IF names = <<>> THEN armor
  ELSE naturalArmorOf(part, muts, Tail(names),
         IF ProvidesArmorType(names[1]) = part.type
         THEN [av |-> avFormula(names[1], muts[names[1]].level), source |-> names[1]]
         ELSE armor)

\* _calculateNaturalArmor without its clearing loop: a part no active grant
\* targets keeps what it had
calculateNaturalArmorMutant(sd, muts) ==
  [sd EXCEPT !.bodyParts =
     [i \in 1..Len(@) |->
        [naturalArmor |->
           naturalArmorOf(@[i], muts, ActiveMutations(muts),
                          IF "naturalArmor" \in DOMAIN @[i] THEN @[i].naturalArmor
                          ELSE [av |-> 0, source |-> ""]),
         hasWings |-> @[i].type = "Back" /\ "Wings" \in Range(ActiveMutations(muts))]
        @@ @[i]]]
\* _calculateNaturalArmor : clear, then the flight flag, then the grants
calculateNaturalArmor(sd, muts) ==
  [sd EXCEPT !.bodyParts =
     [i \in 1..Len(@) |->
        [naturalArmor |->
           naturalArmorOf(@[i], muts, ActiveMutations(muts), [av |-> 0, source |-> ""]),
         hasWings |-> @[i].type = "Back" /\ "Wings" \in Range(ActiveMutations(muts))]
        @@ @[i]]]

\* the sum over the ledger entries after the first of (roll + toughMod)
RECURSIVE hpGains(_, _, _)
hpGains(hpHistory, i, toughMod) ==
  IF i > Len(hpHistory) THEN 0
  ELSE hpHistory[i].roll + toughMod + hpGains(hpHistory, i + 1, toughMod)

\* the entries as the loop leaves them: modifier and total rewritten
rewriteHistory(hpHistory, toughMod) ==
  [i \in 1..Len(hpHistory) |->
     IF i = 1 THEN hpHistory[i]
     ELSE [hpHistory[i] EXCEPT !.modifier = toughMod,
                               !.total = hpHistory[i].roll + toughMod]]

RECURSIVE storedTotals(_, _)
storedTotals(hpHistory, i) ==
  IF i > Len(hpHistory) THEN 0
  ELSE hpHistory[i].total + storedTotals(hpHistory, i + 1)

\* _calculateHP
calculateHPMutant(sd) ==
  LET toughValue == sd.attributes.toughness.value
      toughMod == sd.attributes.toughness.mod
      hpHistory == sd.health.hpHistory
      max == IF sd.level = 1 THEN toughValue
             ELSE toughValue + storedTotals(hpHistory, 2)
      history == IF sd.level = 1
                 THEN IF Len(hpHistory) = 0
                      THEN <<[level |-> 1, roll |-> toughValue,
                              modifier |-> toughMod, total |-> toughValue]>>
                      ELSE hpHistory
                 ELSE rewriteHistory(hpHistory, toughMod)
  IN [sd EXCEPT !.health = [value |-> Min(@.value, max), max |-> max,
                            hpHistory |-> history]]
calculateHP(sd) ==
  LET toughValue == sd.attributes.toughness.value
      toughMod == sd.attributes.toughness.mod
      hpHistory == sd.health.hpHistory
      max == IF sd.level = 1 THEN toughValue
             ELSE toughValue + hpGains(hpHistory, 2, toughMod)
      history == IF sd.level = 1
                 THEN IF Len(hpHistory) = 0
                      THEN <<[level |-> 1, roll |-> toughValue,
                              modifier |-> toughMod, total |-> toughValue]>>
                      ELSE hpHistory
                 ELSE rewriteHistory(hpHistory, toughMod)
  IN [sd EXCEPT !.health = [value |-> Min(@.value, max), max |-> max,
                            hpHistory |-> history]]

\* the armor document a part wears (this.items.get(part.equipment), type armor)
armorOn(docs, part) ==
  IF part.equipment # "" /\ part.equipment \in DOMAIN docs
     /\ docs[part.equipment].type = "armor"
  THEN docs[part.equipment] ELSE Nothing

\* partAV and partDV of one part
partAV(docs, part) ==
  (IF IsSome(armorOn(docs, part)) THEN armorOn(docs, part).av ELSE 0)
  + (IF "naturalArmor" \in DOMAIN part THEN part.naturalArmor.av ELSE 0)
partDV(docs, part) ==
  IF IsSome(armorOn(docs, part)) THEN armorOn(docs, part).dvModifier ELSE 0

\* the parts of partsByType[type], in key order
partsByType(ps, type) == SelectSeq(ps, LAMBDA part : part.type = type)

\* Object.entries(partsByType) : the types in order of first appearance
typeEntries(ps) ==
  LET firsts == SelectSeq([i \in 1..Len(ps) |-> i],
                          LAMBDA i : \A j \in 1..(i - 1) : ps[j].type # ps[i].type)
  IN [k \in 1..Len(firsts) |-> ps[firsts[k]].type]

\* the loop over the groups: totalAV += avgAV, totalDV += avgDV
RECURSIVE sumAverages(_, _, _, _)
sumAverages(ps, docs, types, totals) ==
  IF types = <<>> THEN totals
  ELSE LET parts == partsByType(ps, types[1])
           avSum == SumSeq([i \in 1..Len(parts) |-> partAV(docs, parts[i])])
           dvSum == SumSeq([i \in 1..Len(parts) |-> partDV(docs, parts[i])])
       IN Let([av |-> NumberAdd(totals.av, NumberDivide(avSum, Len(parts))),
               dv |-> NumberAdd(totals.dv, NumberDivide(dvSum, Len(parts)))],
              LAMBDA t : sumAverages(ps, docs, Tail(types), t))

\* _applyEquipmentBonuses
applyEquipmentBonuses(sd, docs) ==
  Let(sumAverages(sd.bodyParts, docs, typeEntries(sd.bodyParts),
                  [av |-> ToDouble(0), dv |-> ToDouble(0)]),
      LAMBDA total :
        [sd EXCEPT !.combat.av = MathFloor(total.av),
                   !.combat.dv = @ + MathFloor(total.dv)])

\* _calculateCombatStats
calculateCombatStats(sd, docs) ==
  Let(calculateHP([sd EXCEPT !.combat.dv = dvBase + sd.attributes.agility.mod,
                             !.combat.pv = pvBase + sd.attributes.strength.mod,
                             !.combat.ma = maBase + sd.attributes.willpower.mod]),
      LAMBDA withHP : applyEquipmentBonuses(withHP, docs))

\* the weight of every item : (weight || 0) * (quantity || 1)
RECURSIVE currentWeight(_, _)
currentWeight(docs, ids) ==
  IF ids = {} THEN 0
  ELSE LET id == CHOOSE id \in ids : TRUE
       IN docs[id].weight * (IF docs[id].quantity = 0 THEN 1 ELSE docs[id].quantity)
          + currentWeight(docs, ids \ {id})

\* _calculateCarryCapacity
calculateCarryCapacity(sd, docs) ==
  LET max == carryCapacityMultiplier * sd.attributes.strength.value
      current == currentWeight(docs, DOMAIN docs)
  IN [sd EXCEPT !.carryCapacity =
        [max |-> max, current |-> current, overburdened |-> current > max]]

\* _calculateSkillPoints
calculateSkillPoints(sd) ==
  LET basePerLevel == IF sd.characterType = "TrueKin" THEN skillPointsTrueKin
                      ELSE skillPointsMutant
      intModifier == (sd.attributes.intelligence.value - 10) * skillPointsPerInt
      totalEarned == (basePerLevel + intModifier) * sd.level
  IN [sd EXCEPT !.skillPoints.total = totalEarned,
                !.skillPoints.available = totalEarned - sd.skillPoints.spent]

\* _calculateHPRegeneration
calculateHPRegeneration(sd) ==
  [sd EXCEPT !.hpRegen.rate =
     NumberDivide(hpRegenBase + hpRegenMultiplier
                    * (sd.attributes.willpower.mod + sd.attributes.toughness.mod),
                  100)]

\* _calculateCooldownReduction
calculateCooldownReduction(sd) ==
  [sd EXCEPT !.cooldownReduction =
     [reductionPercent |->
        Min(cooldownReductionMax,
            Max(0, (sd.attributes.willpower.value - 16) * cooldownReductionPercent)),
      minimumCooldown |-> cooldownMinimum]]

\* eval(bonus.formula.replace(/level/g, level)) for the catalog's formulas
evalFormula(formula, level) ==
  IF formula = "level + 5" THEN level + 5
  ELSE IF formula = "level * 20" THEN level * 20
  ELSE IF formula = "10 + (level - 1) * 10" THEN 10 + (level - 1) * 10
  ELSE 0

\* one mutation's carry capacity bonus
carryBonus(max, bonus, level) ==
  IF bonus.value = 0 THEN 0
  ELSE IF bonus.type = "flat" THEN bonus.value
  ELSE IF bonus.type = "percent"
  THEN MathFloor(NumberTimes(NumberDivide(bonus.value, 100), max))
  ELSE IF bonus.type = "formula" /\ bonus.formula # ""
  THEN evalFormula(bonus.formula, level)
  ELSE 0

\* what one mutation adds to movement.speedBonus (plainType percent) or to
\* quickness.bonus (plainType flat)
bonusAmount(bonus, level, plainType) ==
  IF bonus.type = plainType THEN bonus.value
  ELSE IF bonus.type = "formula" /\ bonus.formula # ""
  THEN evalFormula(bonus.formula, level)
  ELSE 0

\* systemData.movement after one mutation: created at 0 when it does not
\* exist, then added to
movementBonus(movement, bonus, level) ==
  IF bonus.value = 0 THEN movement
  ELSE [speedBonus |-> (IF movement = Absent THEN 0 ELSE movement.speedBonus)
                       + bonusAmount(bonus, level, "percent")]

\* systemData.quickness after one mutation
quicknessBonus(quickness, bonus, level) ==
  IF bonus.value = 0 THEN quickness
  ELSE [bonus |-> (IF quickness = Absent THEN 0 ELSE quickness.bonus)
                  + bonusAmount(bonus, level, "flat")]

\* _applyMutationBonuses : the loop over the active mutations
RECURSIVE applyMutationBonusesFrom(_, _, _)
applyMutationBonusesFrom(sd, muts, names) ==
  IF names = <<>> THEN sd
  ELSE LET bonuses == muts[names[1]].statBonuses
           level == muts[names[1]].level
       IN Let([sd EXCEPT
                 !.carryCapacity.max = @ + carryBonus(@, bonuses.carryCapacity, level),
                 !.movement = movementBonus(@, bonuses.movementSpeed, level),
                 !.quickness = quicknessBonus(@, bonuses.quickness, level)],
              LAMBDA next : applyMutationBonusesFrom(next, muts, Tail(names)))

applyMutationBonuses(sd, muts) ==
  applyMutationBonusesFrom(sd, muts,
    SelectSeq(ActiveMutations(muts), LAMBDA name : "statBonuses" \in DOMAIN muts[name]))

\* _calculateOffhandChances : wielding parts get _calculateOffhandChance,
\* parts of a natural weapon's type its attackChance, other parts are left
calculateOffhandChances(sd, muts) ==
  [sd EXCEPT !.bodyParts =
     [i \in 1..Len(@) |->
        LET granting == SelectSeq(ActiveMutations(muts),
                          LAMBDA name : @[i].type \in NaturalWeaponTypes(name))
        IN IF canWieldWeapon(@[i])
           THEN [offhandChance |-> OffhandBaseChance] @@ @[i]
           ELSE IF granting # <<>>
           THEN [offhandChance |-> NaturalWeaponAttackChance(granting[1])] @@ @[i]
           ELSE @[i]]]

\* _prepareCharacterData, the body of prepareDerivedData for a character
prepareDerivedData(sd, docs, muts) ==
  Let(calculateAttributeModifiers(sd), LAMBDA s1 :
  Let(calculateNaturalArmor(s1, muts), LAMBDA s2 :
  Let(calculateCombatStats(s2, docs), LAMBDA s3 :
  Let(calculateCarryCapacity(s3, docs), LAMBDA s4 :
  Let(calculateSkillPoints(s4), LAMBDA s5 :
  Let(calculateHPRegeneration(s5), LAMBDA s6 :
  Let(calculateCooldownReduction(s6), LAMBDA s7 :
  Let(applyMutationBonuses(s7, muts), LAMBDA s8 :
      calculateOffhandChances(s8, muts)))))))))

\* levelUp with the 1d4 coming up as roll: the ledger entry is pushed, level
\* and ledger are updated, and the data is prepared again
levelUp(sd, docs, muts, roll) ==
  LET hpGain == roll + sd.attributes.toughness.mod
      entry == [level |-> sd.level + 1, roll |-> roll,
                modifier |-> sd.attributes.toughness.mod, total |-> hpGain]
  IN [sd |-> prepareDerivedData(
               [sd EXCEPT !.level = @ + 1,
                          !.health.hpHistory = Append(@, entry)], docs, muts),
      ret |-> hpGain]

\* ------------------------------------------------------------------------
\* The derivation specification: a character whose data is prepared again
\* with nothing changed, after a change of toughness, and after a level up.
\* ------------------------------------------------------------------------
\* the armor in the inventory
ArmorDoc(id, slot, av, dvModifier, weight) ==
  [id |-> id, type |-> "armor", slot |-> slot, av |-> av, dvModifier |-> dvModifier,
   weight |-> weight, quantity |-> 1, equipped |-> FALSE]
DerivedItemDocs ==
  [plate   |-> ArmorDoc("plate", "body", 3, -1, 40),
   bracerL |-> ArmorDoc("bracerL", "arm", 4, -1, 2),
   bracerR |-> ArmorDoc("bracerR", "arm", 4, -1, 2),
   gloveL  |-> ArmorDoc("gloveL", "hand", 2, 0, 1),
   gloveR  |-> ArmorDoc("gloveR", "hand", 2, 0, 1),
   helmet  |-> ArmorDoc("helmet", "head", 1, 0, 3)]

\* item.mjs : the stat bonuses of Multiple Legs as the catalog creates them
\* (every value 0), and with the values filled in on the item
CatalogStatBonuses ==
  [carryCapacity |-> [type |-> "formula", value |-> 0, formula |-> "level + 5"],
   movementSpeed |-> [type |-> "formula", value |-> 0, formula |-> "level * 20"],
   quickness     |-> [type |-> "flat", value |-> 0, formula |-> ""]]
FilledStatBonuses ==
  [carryCapacity |-> [type |-> "formula", value |-> 1, formula |-> "level + 5"],
   movementSpeed |-> [type |-> "formula", value |-> 1, formula |-> "level * 20"],
   quickness     |-> [type |-> "flat", value |-> 2, formula |-> ""]]
DerivedMutationDocs(horns, legs, statBonuses) ==
  [Horns        |-> [isActive |-> horns, level |-> 1],
   MultipleLegs |-> [isActive |-> legs, level |-> 1, statBonuses |-> statBonuses]]

\* the bodies: the humanoid, the humanoid with a third arm and its hand,
\* and the humanoid with the second pair of feet of Multiple Legs
ThreeArmedBody ==
  addBodyPartWithChildren(createHumanoidBody(0).parts, 10, "Arm", "bp_0", "", <<"Hand">>, FALSE).parts
FourLeggedBody == addBodyPart(createHumanoidBody(0).parts, 10, "Feet", "bp_0", "").parts

\* the parts with their equipment set as equipToBodyPart leaves it
Wearing(ps, worn) ==
  [i \in 1..Len(ps) |->
     IF ps[i].id \in DOMAIN worn THEN [ps[i] EXCEPT !.equipment = worn[ps[i].id]]
     ELSE ps[i]]
WornItems(docs, worn) ==
  [id \in DOMAIN docs |->
     [docs[id] EXCEPT !.equipped = \E p \in DOMAIN worn : worn[p] = id]]

Scenario(ps, worn, muts, agilityValue) ==
  [bodyParts |-> Wearing(ps, worn), items |-> WornItems(DerivedItemDocs, worn),
   mutations |-> muts, agility |-> agilityValue]
Scenarios ==
  {Scenario(createHumanoidBody(0).parts, [p \in {} |-> ""],
            DerivedMutationDocs(FALSE, FALSE, CatalogStatBonuses), 16),
   Scenario(createHumanoidBody(0).parts, [bp_0 |-> "plate", bp_4 |-> "bracerL"],
            DerivedMutationDocs(FALSE, FALSE, CatalogStatBonuses), 18),
   Scenario(ThreeArmedBody, [bp_4 |-> "bracerL", bp_5 |-> "gloveL"],
            DerivedMutationDocs(TRUE, FALSE, CatalogStatBonuses), 16),
   Scenario(ThreeArmedBody,
            [bp_1 |-> "helmet", bp_4 |-> "bracerL", bp_5 |-> "gloveL",
             bp_6 |-> "bracerR", bp_7 |-> "gloveR"],
            DerivedMutationDocs(FALSE, FALSE, CatalogStatBonuses), 16),
   Scenario(FourLeggedBody, [bp_0 |-> "plate"],
            DerivedMutationDocs(FALSE, TRUE, CatalogStatBonuses), 13),
   Scenario(FourLeggedBody, [bp_1 |-> "helmet"],
            DerivedMutationDocs(FALSE, TRUE, FilledStatBonuses), 16)}

\* a new character's data before it is first prepared
Attribute(value) == [value |-> value, mod |-> 0]
NewSystemData(ps, agilityValue) ==
  [attributes |-> [strength |-> Attribute(16), agility |-> Attribute(agilityValue),
                   toughness |-> Attribute(18), intelligence |-> Attribute(10),
                   willpower |-> Attribute(16), ego |-> Attribute(16)],
   level |-> 1,
   health |-> [value |-> 18, max |-> 18, hpHistory |-> <<>>],
   combat |-> [mainHandId |-> "", dv |-> 0, pv |-> 0, ma |-> 0, av |-> 0],
   carryCapacity |-> [max |-> 0, current |-> 0, overburdened |-> FALSE],
   skillPoints |-> [total |-> 0, spent |-> 0, available |-> 0],
   characterType |-> "Mutant",
   hpRegen |-> [rate |-> ToDouble(0)],
   cooldownReduction |-> [reductionPercent |-> 0, minimumCooldown |-> 0],
   movement |-> Absent,
   quickness |-> Absent,
   bodyParts |-> ps]

\* actor.system, put together from the variables that hold it
SystemData ==
  [attributes |-> [strength |-> actor.strength, agility |-> agility,
                   toughness |-> actor.toughness, intelligence |-> actor.intelligence,
                   willpower |-> actor.willpower, ego |-> actor.ego],
   level |-> actor.level,
   health |-> actor.health,
   combat |-> combat,
   carryCapacity |-> actor.carryCapacity,
   skillPoints |-> actor.skillPoints,
   characterType |-> actor.characterType,
   hpRegen |-> actor.hpRegen,
   cooldownReduction |-> actor.cooldownReduction,
   movement |-> actor.movement,
   quickness |-> actor.quickness,
   bodyParts |-> bodyParts]

ActorOf(sd) ==
  [bodyRoot |-> "bp_0", level |-> sd.level,
   strength |-> sd.attributes.strength, toughness |-> sd.attributes.toughness,
   intelligence |-> sd.attributes.intelligence, willpower |-> sd.attributes.willpower,
   ego |-> sd.attributes.ego, health |-> sd.health,
   carryCapacity |-> sd.carryCapacity, skillPoints |-> sd.skillPoints,
   characterType |-> sd.characterType, hpRegen |-> sd.hpRegen,
   cooldownReduction |-> sd.cooldownReduction, movement |-> sd.movement,
   quickness |-> sd.quickness]

InitDerived ==
  \E scenario \in Scenarios :
    \E sd \in {prepareDerivedData(NewSystemData(scenario.bodyParts, scenario.agility),
                                  scenario.items, scenario.mutations)} :
      /\ bodyParts = sd.bodyParts
      /\ items = scenario.items
      /\ mutations = scenario.mutations
      /\ combat = sd.combat
      /\ agility = sd.attributes.agility
      /\ actor = ActorOf(sd)
      /\ bodyPartIdCounter = Len(sd.bodyParts)
      /\ target = [health |-> 3, dv |-> 6, av |-> 4, lastDamageTurn |-> <<>>]
      /\ inv = [a \in Attacks |-> IdleFrame]
      /\ calls = <<>>

\* one completed call on the character's data
Derive(op, args, run(_)) ==
  \E r \in {run(sd) : sd \in {SystemData}} :
    /\ Len(calls) < MaxCalls
    /\ bodyParts' = r.sd.bodyParts
    /\ combat' = r.sd.combat
    /\ agility' = r.sd.attributes.agility
    /\ actor' = ActorOf(r.sd)
    /\ calls' = Append(calls, [op |-> op, args |-> args, ret |-> r.ret,
                               before |-> SystemData])
    /\ UNCHANGED <<items, mutations, bodyPartIdCounter, target, inv>>

\* the data is prepared again with nothing changed
callPrepareDerivedData ==
  Derive("prepareDerivedData", <<>>,
         LAMBDA sd : [sd |-> prepareDerivedData(sd, items, mutations), ret |-> 0])

\* an attribute's value is edited; the data is prepared again
AttributeValues == {14, 18, 20}
callUpdateAttribute(key, value) ==
  /\ SystemData.attributes[key].value # value
  /\ Derive("updateAttribute", <<key, value>>,
            LAMBDA sd : [sd |-> prepareDerivedData(
                                  [sd EXCEPT !.attributes[key].value = value],
                                  items, mutations),
                         ret |-> 0])

\* the outcomes of the 1d4 that are tried
HpRolls == {1, 3, 4}
callLevelUp(roll) ==
  Derive("levelUp", <<roll>>, LAMBDA sd : levelUp(sd, items, mutations, roll))

NextDerived ==
  \/ callPrepareDerivedData
  \/ \E value \in AttributeValues : callUpdateAttribute("toughness", value)
  \/ \E roll \in HpRolls : callLevelUp(roll)

SpecDerived == InitDerived /\ [][NextDerived]_vars

\* ------------------------------------------------------------------------
\* The sheet specification: a character and an NPC whose documents are
\* edited (current HP, an item's quantity, a mutation switched on or off);
\* every edit is followed by prepareDerivedData. calls holds the last
\* completed call only.
\* ------------------------------------------------------------------------
\* _prepareNpcData : the character's derivation, then the manual modifiers
prepareNpcData(sd, docs, muts) ==
  Let(prepareDerivedData(sd, docs, muts), LAMBDA s :
    IF s.statModifiers = Absent THEN s
    ELSE LET mods == s.statModifiers
             max == s.health.max + mods.hp
         IN [s EXCEPT
               !.combat = [dvBase |-> @.dv, pvBase |-> @.pv, maBase |-> @.ma,
                           avBase |-> @.av, dv |-> @.dv + mods.dv,
                           pv |-> @.pv + mods.pv, ma |-> @.ma + mods.ma,
                           av |-> @.av + mods.av] @@ @,
               !.health = [maxBase |-> @.max, max |-> max,
                           value |-> Min(@.value, max)] @@ @])

\* prepareDerivedData : the derivation of the actor's type
prepareData(type, sd, docs, muts) ==
  IF type = "character" THEN prepareDerivedData(sd, docs, muts)
  ELSE IF type = "npc" THEN prepareNpcData(sd, docs, muts)
  ELSE sd

\* the items of the sheet: the worn plate and a stack of ingots
SheetItemDocs ==
  [plate |-> [ArmorDoc("plate", "body", 3, -1, 40) EXCEPT !.equipped = TRUE],
   ingot |-> [id |-> "ingot", type |-> "gear", weight |-> 67, quantity |-> 1,
              equipped |-> FALSE]]

\* item.mjs : Horns, Quills and Wings as the catalog creates them (no body
\* modifications), and Multiple Legs applied with its carry bonus filled in
CarryStatBonuses ==
  [CatalogStatBonuses EXCEPT !.carryCapacity.value = 1]
WingsStatBonuses ==
  [carryCapacity |-> [type |-> "flat", value |-> 0, formula |-> ""],
   movementSpeed |-> [type |-> "formula", value |-> 0,
                      formula |-> "10 + (level - 1) * 10"],
   quickness     |-> [type |-> "flat", value |-> 0, formula |-> ""]]
SheetMutation(isActive, level) ==
  [isActive |-> isActive, level |-> level, bodyModifications |-> <<>>,
   addedBodyParts |-> <<>>]
SheetMutationDocs ==
  [Horns        |-> SheetMutation(FALSE, 4),
   Quills       |-> SheetMutation(FALSE, 2),
   Wings        |-> [statBonuses |-> WingsStatBonuses] @@ SheetMutation(FALSE, 1),
   MultipleLegs |-> [statBonuses |-> CarryStatBonuses] @@ SheetMutation(TRUE, 1)]
SheetMutations == {"Horns", "Quills", "Wings"}

\* the GM's manual modifiers of the NPC
NpcStatModifiers == [dv |-> 1, pv |-> 0, ma |-> 0, av |-> 1, hp |-> 10]
ActorTypes == {"character", "npc"}

\* actor.system of the sheet, put together from the variables that hold it
SheetData == [statModifiers |-> actor.statModifiers] @@ SystemData
SheetActor(type, sd) ==
  [type |-> type, statModifiers |-> sd.statModifiers] @@ ActorOf(sd)
NewSheetData(type) ==
  [statModifiers |-> IF type = "npc" THEN NpcStatModifiers ELSE Absent]
  @@ NewSystemData(Wearing(FourLeggedBody, [bp_0 |-> "plate"]), 16)

InitEdited ==
  \E type \in ActorTypes :
    \E sd \in {prepareData(type, NewSheetData(type), SheetItemDocs, SheetMutationDocs)} :
      /\ bodyParts = sd.bodyParts
      /\ items = SheetItemDocs
      /\ mutations = SheetMutationDocs
      /\ combat = sd.combat
      /\ agility = sd.attributes.agility
      /\ actor = SheetActor(type, sd)
      /\ bodyPartIdCounter = Len(sd.bodyParts)
      /\ target = [health |-> 3, dv |-> 6, av |-> 4, lastDamageTurn |-> <<>>]
      /\ inv = [a \in Attacks |-> IdleFrame]
      /\ calls = <<>>

\* the documents an edit reads and writes
SheetDocs == [sd |-> SheetData, docs |-> items, muts |-> mutations]

\* one completed edit: the documents are written and the data is prepared
Edit(op, args, write(_)) ==
  \E w \in {write(d) : d \in {SheetDocs}} :
    \E sd \in {prepareData(actor.type, w.sd, w.docs, w.muts)} :
      /\ bodyParts' = sd.bodyParts
      /\ combat' = sd.combat
      /\ agility' = sd.attributes.agility
      /\ actor' = SheetActor(actor.type, sd)
      /\ items' = w.docs
      /\ mutations' = w.muts
      /\ calls' = <<[op |-> op, args |-> args, ret |-> 0, before |-> SheetDocs]>>
      /\ UNCHANGED <<bodyPartIdCounter, target, inv>>

\* the current HP is edited on the sheet
HealthValues == {12, 20, 40}
callUpdateHealthValue(value) ==
  Edit("updateHealthValue", <<value>>,
       LAMBDA d : [d EXCEPT !.sd.health.value = value])

\* an item's quantity is edited on the sheet
Quantities == {0, 1, 3}
callUpdateQuantity(itemId, quantity) ==
  Edit("updateQuantity", <<itemId, quantity>>,
       LAMBDA d : [d EXCEPT !.docs[itemId].quantity = quantity])

\* applyMutation and removeMutation of a mutation of the sheet
MutationSt(d) ==
  [bodyParts |-> d.sd.bodyParts, items |-> d.docs, mutations |-> d.muts,
   counter |-> bodyPartIdCounter, bodyRoot |-> actor.bodyRoot]
Written(d, st) ==
  [sd |-> [d.sd EXCEPT !.bodyParts = st.bodyParts], docs |-> st.items,
   muts |-> st.mutations]
sheetApplyMutation(name) ==
  Edit("applyMutation", <<name>>,
       LAMBDA d : Written(d, applyMutation(MutationSt(d), name, "", "").st))
sheetRemoveMutation(name) ==
  Edit("removeMutation", <<name>>,
       LAMBDA d : Written(d, removeMutation(MutationSt(d), name).st))

NextEdited ==
  \/ \E value \in HealthValues : callUpdateHealthValue(value)
  \/ \E quantity \in Quantities : callUpdateQuantity("ingot", quantity)
  \/ \E name \in SheetMutations : sheetApplyMutation(name)
  \/ \E name \in SheetMutations : sheetRemoveMutation(name)

SpecEdited == InitEdited /\ [][NextEdited]_vars

\* ------------------------------------------------------------------------
\* The attribute specification: the sheet's attribute values are edited one
\* at a time, each edit followed by prepareDerivedData.
\* ------------------------------------------------------------------------
\* the values an attribute is edited to
AgilityValues == 11..23
IntelligenceValues == {9, 15, 22}
sheetUpdateAttribute(key, value) ==
  Edit("updateAttribute", <<key, value>>,
       LAMBDA d : [d EXCEPT !.sd.attributes[key].value = value])

NextAttributes ==
  \/ \E value \in AgilityValues : sheetUpdateAttribute("agility", value)
  \/ \E value \in IntelligenceValues : sheetUpdateAttribute("intelligence", value)

SpecAttributes == InitEdited /\ [][NextAttributes]_vars

\* ------------------------------------------------------------------------
\* The equipment specification: a humanoid with a tail whose items are put
\* on and taken off, whose main hand is designated, whose right hand is
\* removed and whose Horns are applied and removed, in any order. calls holds
\* the last completed call only.
\* ------------------------------------------------------------------------
ErrInvalidPart == "Invalid body part ID"
ErrPartNoWeapon == "Body part must have a weapon (equipped or natural)"

\* validateMainHandId : the error it throws, or "" when it returns true
validateMainHandId(bodyPartId) ==
  LET part == PartById(bodyPartId)
  IN IF ~IsSome(part) THEN ErrInvalidPart
     ELSE IF ~hasEquippedWeapon(part) /\ ~IsSome(getNaturalWeapon(bodyPartId))
     THEN ErrPartNoWeapon
     ELSE ""

\* setMainHand that writes the designation before it validates
setMainHandMutant(bodyPartId) ==
  [mainHandId |-> bodyPartId, error |-> validateMainHandId(bodyPartId)]
\* setMainHand : the value of system.combat.mainHandId it leaves, and the error
setMainHand(bodyPartId) ==
  IF validateMainHandId(bodyPartId) # ""
  THEN [mainHandId |-> combat.mainHandId, error |-> validateMainHandId(bodyPartId)]
  ELSE [mainHandId |-> bodyPartId, error |-> ""]

\* the items of the sheet, and a dagger
EquipItemDocs ==
  [dagger |-> [id |-> "dagger", type |-> "weapon", pv |-> 0, damage |-> "1d4",
               equipped |-> FALSE]] @@ BodyItemDocs

\* a humanoid that has grown a tail
InitEquip ==
  /\ LET humanoidBody == createHumanoidBody(0)
         tailed == addBodyPart(humanoidBody.parts, humanoidBody.counter, "Tail",
                               humanoidBody.root, "")
     IN /\ bodyParts = tailed.parts
        /\ actor = [bodyRoot |-> humanoidBody.root]
        /\ bodyPartIdCounter = tailed.counter
  /\ items = EquipItemDocs
  /\ mutations = MutationDocs
  /\ combat = [mainHandId |-> "", pv |-> 4]
  /\ agility = [mod |-> 0]
  /\ target = [health |-> 3, dv |-> 6, av |-> 4, lastDamageTurn |-> <<>>]
  /\ inv = [a \in Attacks |-> IdleFrame]
  /\ calls = <<>>

\* the documents and the designation a call finds
EquipSt == [mainHandId |-> combat.mainHandId] @@ St

\* one completed call of a handler of the documents
EquipStep(op, args, run(_)) ==
  \E r \in {run(st) : st \in {St}} :
    /\ Commit(r.st)
    /\ calls' = <<[op |-> op, args |-> args, ret |-> r.ret, before |-> EquipSt]>>
    /\ UNCHANGED Rest

onEquipToBodyPart(itemId, partId) ==
  EquipStep("equipToBodyPart", <<itemId, partId>>,
            LAMBDA st : equipToBodyPart(st, itemId, partId))

onUnequipFromBodyPart(partId) ==
  EquipStep("unequipFromBodyPart", <<partId>>,
            LAMBDA st : unequipFromBodyPart(st, partId))

onRemoveBodyPartMutation(partId) ==
  EquipStep("removeBodyPartMutation", <<partId>>,
            LAMBDA st : removeBodyPartMutation(st, partId))

onApplyMutation(name) ==
  EquipStep("applyMutation", <<name>>,
            LAMBDA st : [st |-> applyMutation(st, name, "", "").st, ret |-> 0])

onRemoveMutation(name) ==
  EquipStep("removeMutation", <<name>>, LAMBDA st : removeMutation(st, name))

onSetMainHand(bodyPartId) ==
  \E r \in {setMainHand(bodyPartId)} :
    /\ combat' = [combat EXCEPT !.mainHandId = r.mainHandId]
    /\ calls' = <<[op |-> "setMainHand", args |-> <<bodyPartId>>, ret |-> r.error,
                   before |-> EquipSt]>>
    /\ UNCHANGED <<bodyParts, items, mutations, actor, bodyPartIdCounter, agility,
                   target, inv>>

\* the items and parts the calls name: bp_1 the head, bp_5 and bp_7 the hands,
\* bp_10 the tail, and an item and a part that do not exist
EquipPairs ==
  {<<"sword", "bp_7">>, <<"sword", "bp_5">>, <<"sword", "bp_1">>, <<"dagger", "bp_7">>,
   <<"helmet", "bp_1">>, <<"helmet", "bp_7">>, <<"helmet", "bp_10">>,
   <<"ghost", "bp_1">>, <<"sword", MissingId>>}
UnequipIds == {"bp_7", "bp_1"}
MainHandIds == {"bp_7", "bp_5", "bp_1", MissingId}

NextEquip ==
  \/ \E pair \in EquipPairs : onEquipToBodyPart(pair[1], pair[2])
  \/ \E partId \in UnequipIds : onUnequipFromBodyPart(partId)
  \/ \E bodyPartId \in MainHandIds : onSetMainHand(bodyPartId)
  \/ onRemoveBodyPartMutation("bp_7")
  \/ onApplyMutation("Horns")
  \/ onRemoveMutation("Horns")

SpecEquip == InitEquip /\ [][NextEquip]_vars


\* ------------------------------------------------------------------------
\* combat.mjs : formatCombatResults, the triplet details of a hand that hit
\* ------------------------------------------------------------------------
\* explosionDisplay: the raw faces joined, and after '=' the total they are
\* shown to add up to (singlet.total + 2 per roll)
explosionDisplay(singlet) ==
  [faces |-> IF singlet.exploded THEN singlet.explosionChain ELSE <<>>,
   shown |-> singlet.total + 2 * Len(singlet.rolls)]

\* handResult.penetration.triplets.map((triplet, idx) => ...)
formatTripletDetails(penetration) ==
  [idx \in 1..Len(penetration.triplets) |->
     LET triplet == penetration.triplets[idx] IN
     [tripletNumber |-> idx,
      pv |-> triplet.attackerPV,
      av |-> triplet.defenderAV,
      targetNumber |-> triplet.targetNumber,
      passed |-> triplet.penetrations > 0,
      singlets |-> [k \in 1..Len(triplet.singlets) |->
                      LET singlet == triplet.singlets[k] IN
                      [rolls |-> explosionDisplay(singlet),
                       finalTotal |-> singlet.total,
                       succeeded |-> singlet.total >= triplet.targetNumber,
                       exploded |-> singlet.exploded]]]]

\* ========================================================================
\* Properties
\* ========================================================================
PenetrationCalls == {a \in Attacks : inv[a].entry = "resolvePenetration"}
SingletCalls == {a \in Attacks : inv[a].entry = "rollQudSinglet"}
AttackCalls == {a \in Attacks : inv[a].entry = "rollMultiAttack"}

\* singlet j of triplet t passes: its total plus the triplet's PV reaches the AV
PassesAV(t, j) == t.singlets[j].total + t.attackerPV >= t.defenderAV
PassCount(t) == Cardinality({j \in 1..Len(t.singlets) : PassesAV(t, j)})

\* C1: in resolvePenetration, triplet k+1 is rolled only if triplet k was
\* allPassed and the PV reduced by 2 is still > 0; each further triplet is
\* rolled with a PV exactly 2 lower than the one before; the sequence stops at
\* the first triplet that is not allPassed (and not earlier); with an initial
\* PV <= 0 no triplet and no die is rolled.
C1_PenetrationSequence ==
  \A a \in PenetrationCalls :
    LET f == inv[a]
        ts == f.pen.triplets
        n == Len(ts)
        pv0 == f.args[1]
    IN /\ \A k \in 1..n : ts[k].attackerPV > 0 /\ ts[k].attackerPV = pv0 - 2 * (k - 1)
       /\ \A k \in 1..(n - 1) : PassCount(ts[k]) = 3
       /\ f.pc = "triplet" => (\A k \in 1..n : PassCount(ts[k]) = 3) /\ pv0 - 2 * n > 0
       /\ f.pc = "returned" =>
            \/ n = 0 /\ pv0 <= 0
            \/ n > 0 /\ (PassCount(ts[n]) < 3 \/ pv0 - 2 * n <= 0)
       /\ pv0 <= 0 => n = 0 /\ f.dieLog = <<>> /\ f.pc = "returned"

\* a sequence of two triplets that ended because the PV ran out
C1_Witness ==
  \E a \in PenetrationCalls :
    /\ inv[a].pc = "returned"
    /\ Len(inv[a].pen.triplets) = 2
    /\ PassCount(inv[a].pen.triplets[2]) = 3

\* C2: the record resolvePenetration returns has initialPV = the PV passed in,
\* finalPV = initialPV - 2 * (number of allPassed triplets), totalPenetrations =
\* the number of triplets in which at least one singlet passed, every triplet
\* but possibly the last allPassed, and triplet i (from 0) at PV initialPV - 2i.
C2_PenetrationRecord ==
  \A a \in PenetrationCalls :
    inv[a].pc = "returned" =>
      LET r == inv[a].ret
          ts == r.triplets
          n == Len(ts)
      IN /\ r.initialPV = inv[a].args[1]
         /\ r.finalPV = r.initialPV - 2 * Cardinality({k \in 1..n : PassCount(ts[k]) = 3})
         /\ r.totalPenetrations = Cardinality({k \in 1..n : PassCount(ts[k]) >= 1})
         /\ \A k \in 1..(n - 1) : ts[k].allPassed
         /\ \A k \in 1..n : ts[k].attackerPV = r.initialPV - 2 * (k - 1)
         /\ \A k \in 1..n : ts[k].defenderAV = inv[a].args[2]

\* two triplets of which the second penetrated with fewer than three passes
C2_Witness ==
  \E a \in PenetrationCalls :
    /\ inv[a].pc = "returned"
    /\ Len(inv[a].ret.triplets) = 2
    /\ inv[a].ret.totalPenetrations = 2
    /\ inv[a].ret.triplets[2].singletsPassed = 2

FinishedResults(f) ==
  {f.mainHandResults[i] : i \in 1..Len(f.mainHandResults)}
  \cup {f.offHandResults[i] : i \in 1..Len(f.offHandResults)}
\* the dice that arrived for one body part
DiceOf(f, partId) == {f.dieLog[i].kind : i \in {j \in 1..Len(f.dieLog) : f.dieLog[j].part = partId}}
\* a part bears a weapon: an equipped item of type weapon, or a natural weapon
BearsWeapon(part) ==
  \/ part.equipment # "" /\ part.equipment \in DOMAIN items /\ items[part.equipment].type = "weapon"
  \/ IsSome(getNaturalWeapon(part.id))
WeaponParts == {i \in 1..Len(bodyParts) : BearsWeapon(bodyParts[i])}
PartIndex(partId) == CHOOSE i \in 1..Len(bodyParts) : bodyParts[i].id = partId

\* C6: when rollMultiAttack fails validation (no weapon-bearing part, no main
\* hand designated, main hand without weapon, invalid target) no die has been
\* rolled and neither the attacker's mainHandId nor the target's HP has
\* changed; once a die has been rolled the attack has no validation error.
C6_ValidationBeforeDice ==
  \A a \in AttackCalls :
    LET f == inv[a] IN
    /\ f.error \in ValidationErrors =>
         /\ f.pc = "failed"
         /\ f.dieLog = <<>>
         /\ ~f.updated
         /\ combat.mainHandId = f.atCall.mainHandId
         /\ target.health = f.atCall.health
    /\ f.dieLog # <<>> => f.error \notin ValidationErrors
    /\ ~f.args[1] => f.pc = "failed" /\ f.error \in ValidationErrors

\* the attack failed inside executeMultiWeaponAttack: the designated part
\* exists and bears neither an item nor a natural weapon
C6_Witness ==
  \E a \in AttackCalls :
    /\ inv[a].pc = "failed"
    /\ inv[a].error = ErrMainHandNoWeapon
    /\ Cardinality(WeaponParts) > 0

\* C7: attacker validation decides by the number n of weapon-bearing parts:
\* n = 0 fails with the no-weapon error; n > 1 without a designated main hand
\* fails with the no-main-hand error; n = 1 without a designated main hand
\* does not fail, the single part becomes mainHandId before any die is rolled
\* and the attack proceeds with it as main hand.
C7_ValidateAttacker ==
  \A a \in AttackCalls :
    LET f == inv[a]
        n == Cardinality(WeaponParts)
        designated == f.atCall.mainHandId # ""
    IN /\ n = 0 => f.pc = "failed" /\ f.error = ErrNoWeapons
       /\ n > 1 /\ ~designated => f.pc = "failed" /\ f.error = ErrMustDesignate
       /\ n > 0 /\ designated => f.error \notin {ErrNoWeapons, ErrMustDesignate}
       /\ n = 1 /\ ~designated =>
            LET single == bodyParts[CHOOSE i \in WeaponParts : TRUE].id IN
            /\ f.error \notin {ErrNoWeapons, ErrMustDesignate, ErrNoMainHand, ErrMainHandNoWeapon}
            /\ f.args[1] => f.pc # "failed" \/ f.error \notin ValidationErrors
            /\ f.pc \notin {"failed", "designate"} => combat.mainHandId = single
            /\ f.dieLog # <<>> => f.dieLog[1].part = single /\ f.updated
            /\ f.pc \in {"chat", "done"} => f.ret.mainHandResults[1].bodyPartId = single

\* an attack of a creature whose only weapon is its horns ran to its end with
\* the head designated on the way
C7_Witness ==
  \E a \in AttackCalls :
    /\ inv[a].pc = "done"
    /\ inv[a].atCall.mainHandId = ""
    /\ Cardinality(WeaponParts) = 1
    /\ combat.mainHandId = "head"
    /\ inv[a].ret.mainHandResults[1].bodyPartId = "head"

\* C8: a hand hits exactly when d20 + the agility modifier >= the target's DV;
\* on a miss no penetration die and no damage die is rolled for the hand; on a
\* hit the penetration sequence runs with PV = combat.pv + the weapon's pv
\* bonus against the target's AV, the number of damage rolls equals
\* totalPenetrations, and the hand's totalDamage is the sum of those rolls.
C8_HandAttack ==
  \A a \in AttackCalls :
    LET f == inv[a] IN
    /\ \A r \in FinishedResults(f) :
         Has(r, "hit") =>
           LET dice == DiceOf(f, r.bodyPartId)
               weapon == HandWeapon(PartById(r.bodyPartId))
           IN /\ r.toHitTotal = r.toHitRoll + agility.mod
              /\ r.targetDV = target.dv
              /\ r.hit <=> r.toHitRoll + agility.mod >= target.dv
              /\ ~r.hit =>
                   /\ "d10" \notin dice /\ "damage" \notin dice
                   /\ ~Has(r, "penetration") /\ ~Has(r, "damageRolls") /\ ~Has(r, "totalDamage")
              /\ r.hit =>
                   /\ r.penetration.initialPV = combat.pv + WeaponPV(weapon)
                   /\ Len(r.damageRolls) = r.penetration.totalPenetrations
                   /\ r.totalDamage = SumSeq(r.damageRolls)
                   /\ "damage" \in dice <=> r.penetration.totalPenetrations > 0
                   /\ "d10" \in dice <=> r.penetration.initialPV > 0
    /\ f.pc \in {"triplet", "damage"} =>
         /\ f.result.hit
         /\ f.result.toHitRoll + agility.mod >= target.dv
    /\ f.pc = "triplet" =>
         /\ f.pen.defenderAV = target.av
         /\ f.pen.attackerPV = combat.pv + WeaponPV(HandWeapon(PartById(f.partId)))
    /\ f.pc = "damage" =>
         /\ Len(f.damageRolls) < f.result.penetration.totalPenetrations
         /\ f.result.penetration.initialPV = combat.pv + WeaponPV(HandWeapon(PartById(f.partId)))

\* a hand hit, penetrated twice and rolled its damage twice; another missed
C8_Witness ==
  \E a \in AttackCalls :
    /\ \E r \in FinishedResults(inv[a]) :
         /\ IsTrue(r, "hit")
         /\ r.penetration.totalPenetrations = 2
         /\ Len(r.damageRolls) = 2
         /\ r.weaponPV = 1
    /\ \E r \in FinishedResults(inv[a]) : Has(r, "hit") /\ ~r.hit

\* the place of a die in a hand's sequence
KindRank(kind) ==
  CASE kind = "d100" -> 0 [] kind = "d20" -> 1 [] kind = "d10" -> 2 [] kind = "damage" -> 3

\* C9: within one attack the hands are resolved one after another: the main
\* hand's whole sequence completes before any offhand die, offhand i's whole
\* sequence (percentage, to-hit, penetration, damage) completes before offhand
\* i+1's percentage check, offhands are taken in body-part order, the main-hand
\* part is never among the offhands, and an offhand rolls to-hit only if its
\* 1d100 result is <= its offhand-trigger chance.
C9_HandsInSequence ==
  \A a \in AttackCalls :
    LET f == inv[a]
        log == f.dieLog
        n == Len(log)
    IN /\ n > 0 => log[1].part = combat.mainHandId /\ log[1].kind = "d20"
       /\ \A i \in 1..(n - 1) :
            \/ /\ log[i + 1].part = log[i].part
               /\ KindRank(log[i + 1].kind) > KindRank(log[i].kind)
            \/ /\ log[i + 1].part # log[i].part
               /\ log[i + 1].kind = "d100"
               /\ \A j \in 1..i : log[j].part # log[i + 1].part
               /\ log[i].part # combat.mainHandId =>
                    PartIndex(log[i + 1].part) > PartIndex(log[i].part)
               /\ \E r \in FinishedResults(f) : r.bodyPartId = log[i].part
       /\ \A i \in 1..n : log[i].kind = "d100" => log[i].part # combat.mainHandId
       /\ \A i \in 1..Len(f.offHandResults) :
            LET r == f.offHandResults[i] IN
            /\ r.bodyPartId # combat.mainHandId
            /\ \A j \in 1..(i - 1) :
                 PartIndex(f.offHandResults[j].bodyPartId) < PartIndex(r.bodyPartId)
            /\ r.offhandChance = OffhandChanceOf(PartById(r.bodyPartId))
            /\ Has(r, "hit") <=> r.percentResult <= r.offhandChance
            /\ "d20" \in DiceOf(f, r.bodyPartId) <=> r.percentResult <= r.offhandChance
       /\ f.offhand /\ f.pc \in {"toHit", "triplet", "damage"} =>
            LET cur == IF f.pc = "toHit" THEN f.cur ELSE f.result IN
            cur.percentResult <= OffhandChanceOf(PartById(f.partId))
       /\ f.pc \in {"chat", "done"} =>
            {f.ret.offHandResults[i].bodyPartId : i \in 1..Len(f.ret.offHandResults)}
              = {bodyParts[i].id : i \in {j \in 1..Len(bodyParts) :
                                            /\ bodyParts[j].id # combat.mainHandId
                                            /\ IsSome(HandWeapon(bodyParts[j]))
                                            /\ \/ canWieldWeapon(bodyParts[j])
                                               \/ IsSome(getNaturalWeapon(bodyParts[j].id))}}

\* both offhands triggered after the main hand, one of them exactly at its chance
C9_Witness ==
  \E a \in AttackCalls :
    /\ inv[a].pc = "done"
    /\ Len(inv[a].ret.offHandResults) = 2
    /\ \A i \in 1..2 : Has(inv[a].ret.offHandResults[i], "hit")
    /\ \E i \in 1..2 : inv[a].ret.offHandResults[i].percentResult
                         = inv[a].ret.offHandResults[i].offhandChance
    /\ Cardinality({inv[a].dieLog[i].part : i \in 1..Len(inv[a].dieLog)}) = 3

\* a hand that hit and penetrated (an offhand having triggered first)
HitAndPenetrated(r) ==
  IsTrue(r, "hit") /\ Has(r, "penetration") /\ r.penetration.totalPenetrations > 0
RECURSIVE SumPenetratingDamage(_)
SumPenetratingDamage(rs) ==
  IF rs = <<>> THEN 0
  ELSE (IF HitAndPenetrated(Head(rs)) THEN Head(rs).totalDamage ELSE 0)
       + SumPenetratingDamage(Tail(rs))

\* C10: in every completed attack totalDamage is the sum of totalDamage over
\* exactly the hands that hit and penetrated; damage is applied to the target
\* at most once, only after all hands have finished, and is the only state
\* change made after dice rolling begins; the record has targetHPBefore = the
\* target's HP at attack start and targetHPAfter = max(0, targetHPBefore -
\* totalDamage).
C10_DamageAggregation ==
  \A a \in AttackCalls :
    LET f == inv[a] IN
    /\ f.pc \in {"applyDamage", "chat", "done"} =>
         /\ Len(f.mainHandResults) = 1
         /\ f.offHands = <<>>
         /\ f.partId = ""
    /\ f.pc \in {"chat", "done"} =>
         /\ f.ret.totalDamage = SumPenetratingDamage(f.ret.mainHandResults \o f.ret.offHandResults)
         /\ f.ret.targetHPBefore = f.atCall.health
         /\ f.ret.targetHPAfter = Max(0, f.ret.targetHPBefore - f.ret.totalDamage)

\* ------------------------------------------------------------------------
\* The body hierarchy and the equipment
\* ------------------------------------------------------------------------
\* how often x occurs in a list
Occurrences(list, x) == Cardinality({i \in 1..Len(list) : list[i] = x})

\* the part reached from id by following n parent links ("" past the root)
RECURSIVE AncestorAt(_, _, _)
AncestorAt(ps, id, n) ==
  IF n = 0 \/ id = "" \/ ~HasPart(ps, id) THEN id
  ELSE AncestorAt(ps, GetPart(ps, id).parent, n - 1)

\* the parts that can be reached from id through children lists in n steps
RECURSIVE ReachableFrom(_, _, _)
ReachableFrom(ps, ids, n) ==
  IF n = 0 THEN ids
  ELSE ReachableFrom(ps,
                     ids \cup UNION {Range(GetPart(ps, id).children) :
                                       id \in ids \cap PartIdsOf(ps)},
                     n - 1)

\* the calls of the history that are this operation
CallsOf(op) == {i \in 1..Len(calls) : calls[i].op = op}

\* the documents after call i of the history
After(i) == IF i < Len(calls) THEN calls[i + 1].before ELSE St

DescendantsOf(ps, id) ==
  {q \in PartIdsOf(ps) : \E n \in 1..Len(ps) : AncestorAt(ps, q, n) = id}

\* C14: removeBodyPart(id) on an existing id deletes exactly that part and its
\* transitive descendants, takes id out of its parent's children list, leaves
\* every other part unchanged and returns exactly the deleted ids, each once,
\* none of which can be looked up afterwards; on an absent id it returns an
\* empty list and changes nothing.
C14_RemoveBodyPart ==
  \A i \in CallsOf("removeBodyPart") :
    LET ps == calls[i].before.bodyParts
        id == calls[i].args[1]
        after == After(i).bodyParts
        removedIds == calls[i].ret
        deleted == {id} \cup DescendantsOf(ps, id)
        parent == GetPart(ps, id).parent
    IN IF HasPart(ps, id)
       THEN /\ PartIdsOf(after) = PartIdsOf(ps) \ deleted
            /\ Range(removedIds) = deleted
            /\ Len(removedIds) = Cardinality(deleted)
            /\ \A r \in Range(removedIds) : ~HasPart(after, r)
            /\ \A q \in PartIdsOf(after) :
                 IF q = parent
                 THEN GetPart(after, q) =
                        [GetPart(ps, q) EXCEPT
                           !.children = SelectSeq(@, LAMBDA c : c # id)]
                 ELSE GetPart(after, q) = GetPart(ps, q)
       ELSE removedIds = <<>> /\ after = ps

\* an arm was removed with its hand, and a removal of an absent id followed
C14_Witness ==
  \E i, j \in CallsOf("removeBodyPart") :
    /\ i < j
    /\ Len(calls[i].ret) = 2
    /\ GetPart(calls[i].before.bodyParts, calls[i].args[1]).parent # ""
    /\ ~HasPart(calls[j].before.bodyParts, calls[j].args[1])
    /\ calls[j].ret = <<>>

\* the items the parts with these ids hold in ps
EquipmentOf(ps, ids) ==
  {GetPart(ps, id).equipment : id \in ids \cap PartIdsOf(ps)} \ {""}

\* C15: after removeBodyPartMutation(id) has removed a part and its
\* descendants, every item a removed part referenced as equipment has its
\* equipped flag false, and no removed id is found in the hierarchy.
C15_RemovalUnequips ==
  \A i \in CallsOf("removeBodyPartMutation") :
    LET removedIds == Range(calls[i].ret)
        before == calls[i].before
        after == After(i)
    IN /\ \A id \in removedIds : ~HasPart(after.bodyParts, id)
       /\ \A itemId \in EquipmentOf(before.bodyParts, removedIds) :
            itemId \in DOMAIN after.items => ~after.items[itemId].equipped

\* an arm was removed whose hand held an item that was flagged as equipped
C15_Witness ==
  \E i \in CallsOf("removeBodyPartMutation") :
    /\ Len(calls[i].ret) = 2
    /\ \E itemId \in EquipmentOf(calls[i].before.bodyParts, {calls[i].ret[2]}) :
         calls[i].before.items[itemId].equipped

\* C16: after any sequence of equipToBodyPart, unequipFromBodyPart,
\* removeBodyPartMutation, applyMutation and removeMutation, an item's equipped
\* flag is true if and only if at least one existing body part references the
\* item as its equipment.
C16_EquippedIffReferenced ==
  \A itemId \in DOMAIN items :
    items[itemId].equipped <=>
      \E i \in 1..Len(bodyParts) : bodyParts[i].equipment = itemId

\* the calls of the history that apply this mutation and are directly
\* followed by its removal
AppliedThenRemoved(name) ==
  {i \in CallsOf("applyMutation") :
     /\ calls[i].args[1] = name
     /\ i + 1 \in CallsOf("removeMutation")
     /\ calls[i + 1].args[1] = name}

\* the mutations with a modification that replaces Hand by BurrowingClaw
ReplacesHands(name) ==
  \E k \in 1..Len(mutations[name].bodyModifications) :
    LET mod == mutations[name].bodyModifications[k]
    IN mod.action = "replace" /\ mod.targetType = "Hand"
       /\ mod.newType = "BurrowingClaw" /\ mod.preserveEquipment

\* C17: applying a mutation that replaces Hand by BurrowingClaw and then
\* removing it leaves exactly the part ids there were before the apply, every
\* part that was a Hand is a Hand again, the parent and children links are
\* unchanged and (equipment being preserved) every part's equipment reference
\* is the same as before.
C17_ReplaceRoundTrip ==
  \A name \in {m \in DOMAIN mutations : ReplacesHands(m)} :
    \A i \in AppliedThenRemoved(name) :
      LET before == calls[i].before.bodyParts
          after == After(i + 1).bodyParts
      IN /\ PartIdsOf(after) = PartIdsOf(before)
         /\ \A id \in PartIdsOf(before) :
              LET b == GetPart(before, id)
                  a == GetPart(after, id)
              IN /\ b.type = "Hand" => a.type = "Hand"
                 /\ a.parent = b.parent
                 /\ a.children = b.children
                 /\ a.equipment = b.equipment

\* a hand holding an item became a claw and was restored
C17_Witness ==
  \E name \in DOMAIN mutations : \E i \in AppliedThenRemoved(name) :
    \E id \in PartIdsOf(calls[i].before.bodyParts) :
      /\ ReplacesHands(name)
      /\ GetPart(calls[i].before.bodyParts, id).type = "Hand"
      /\ GetPart(calls[i].before.bodyParts, id).equipment # ""
      /\ GetPart(calls[i + 1].before.bodyParts, id).type = "BurrowingClaw"
      /\ GetPart(bodyParts, id).type = "Hand"

\* the mutations whose body modifications all add parts
AddsParts(name) ==
  /\ mutations[name].bodyModifications # <<>>
  /\ \A k \in 1..Len(mutations[name].bodyModifications) :
       mutations[name].bodyModifications[k].action = "add"

\* C18: applying a mutation with add-type modifications once and then
\* removing it deletes every part the apply added (auto-added children too),
\* so that the set of body parts equals the set before the apply; after
\* removeMutation the mutation is not active and its tracking list is empty,
\* and removeMutation returns each removed id exactly once.
C18_AddRoundTrip ==
  \A name \in {m \in DOMAIN mutations : AddsParts(m)} :
    \A i \in AppliedThenRemoved(name) :
      ~calls[i].before.mutations[name].isActive =>
        LET before == calls[i].before.bodyParts
            between == calls[i + 1].before.bodyParts
            after == After(i + 1)
            removedIds == calls[i + 1].ret
        IN /\ \A id \in Range(calls[i].ret) : ~HasPart(after.bodyParts, id)
           /\ PartIdsOf(between) \ PartIdsOf(before) = Range(calls[i].ret)
           /\ Range(after.bodyParts) = Range(before)
           /\ ~after.mutations[name].isActive
           /\ after.mutations[name].addedBodyParts = <<>>
           /\ Range(removedIds) = PartIdsOf(between) \ PartIdsOf(after.bodyParts)
           /\ \A id \in Range(removedIds) : Occurrences(removedIds, id) = 1

\* a mutation added a part with a child, and its removal took both away
C18_Witness ==
  \E name \in DOMAIN mutations : \E i \in AppliedThenRemoved(name) :
    /\ AddsParts(name)
    /\ ~calls[i].before.mutations[name].isActive
    /\ Len(calls[i].ret) = 2
    /\ Len(calls[i + 1].ret) = 2

\* the ids of a hierarchy with their types
TypesOf(ps) == {<<ps[i].id, ps[i].type>> : i \in 1..Len(ps)}

\* the calls that apply an inactive mutation and are directly followed by a
\* second apply of the same mutation
AppliedTwice ==
  {i \in CallsOf("applyMutation") :
     /\ ~calls[i].before.mutations[calls[i].args[1]].isActive
     /\ i + 1 \in CallsOf("applyMutation")
     /\ calls[i + 1].args[1] = calls[i].args[1]}

\* C19: applying the same mutation twice without removing it in between does
\* not duplicate its structural effects: the hierarchy after the second apply
\* has the same parts and types as after the first, and a removeMutation that
\* follows reverses every structural change the mutation made (no added part
\* survives, no replaced part keeps the new type).
C19_ApplyTwice ==
  \A i \in AppliedTwice :
    /\ TypesOf(After(i + 1).bodyParts) = TypesOf(calls[i + 1].before.bodyParts)
    /\ (i + 2 \in CallsOf("removeMutation") /\ calls[i + 2].args[1] = calls[i].args[1])
         => TypesOf(After(i + 2).bodyParts) = TypesOf(calls[i].before.bodyParts)

\* the character's data after the first i calls of the derivation history
Derived(i) == IF i < Len(calls) THEN calls[i + 1].before ELSE SystemData

\* the exact floor of the sum over the part types of the average of f over
\* the parts of the type, in integers over the common denominator
RECURSIVE ProductOfCounts(_, _)
ProductOfCounts(ps, types) ==
  IF types = <<>> THEN 1
  ELSE Len(partsByType(ps, types[1])) * ProductOfCounts(ps, Tail(types))
RECURSIVE ScaledAverages(_, _, _, _)
ScaledAverages(ps, types, f(_), denominator) ==
  IF types = <<>> THEN 0
  ELSE LET parts == partsByType(ps, types[1])
       IN SumSeq([i \in 1..Len(parts) |-> f(parts[i])]) * (denominator \div Len(parts))
          + ScaledAverages(ps, Tail(types), f, denominator)
FloorOfAverages(ps, f(_)) ==
  LET types == typeEntries(ps)
      denominator == ProductOfCounts(ps, types)
  IN ScaledAverages(ps, types, f, denominator) \div denominator

\* C11: after recomputation the armor value is the floor of the sum over the
\* part types of the average of (equipped armor's av + natural armor av),
\* rounded once at the end, and the dodge value is 6 + agility modifier + the
\* floor of the sum over the types of the average dodge modifier.
C11_ArmorAveraging ==
  /\ "av" \in DOMAIN combat
  /\ combat.av = FloorOfAverages(bodyParts, LAMBDA part : partAV(items, part))
  /\ combat.dv = 6 + agility.mod
                 + FloorOfAverages(bodyParts, LAMBDA part : partDV(items, part))

C20_HpLedger ==
  \A i \in 1..Len(calls) :
    LET before == calls[i].before.health.hpHistory
        after == Derived(i)
        hpHistory == after.health.hpHistory
        toughness == after.attributes.toughness
        later == 2..Len(hpHistory)
    IN /\ after.level >= 2 =>
            /\ after.health.max =
                 toughness.value
                 + SumSeq([k \in 1..(Len(hpHistory) - 1) |-> hpHistory[k + 1].roll])
                 + (Len(hpHistory) - 1) * toughness.mod
            /\ \A k \in later : hpHistory[k].total = hpHistory[k].roll + toughness.mod
       /\ \A k \in 1..Len(before) : hpHistory[k].roll = before[k].roll
\* the ledger example: the roll 3 made at modifier +1 totals 5 once toughness
\* has been raised to modifier +2
C20_Witness ==
  /\ Len(calls) = 2
  /\ calls[1].op = "levelUp" /\ calls[1].args = <<3>> /\ calls[1].ret = 4
  /\ calls[2].before.attributes.toughness.mod = 1
  /\ calls[2].before.health.hpHistory[2].total = 4
  /\ calls[2].op = "updateAttribute" /\ calls[2].args = <<"toughness", 20>>
  /\ actor.toughness.mod = 2
  /\ actor.health.hpHistory[2].roll = 3
  /\ actor.health.hpHistory[2].total = 5
  /\ actor.health.max = 25

\* C27: addBodyPart with a parentId that is not in the hierarchy fails and
\* leaves the hierarchy unchanged; with an existing parentId it creates exactly
\* one new part with a fresh id, parent = parentId, no children and no
\* equipment, appended as the last entry of the parent's children list, and
\* returns it.
C27_AddBodyPart ==
  \A i \in CallsOf("addBodyPart") :
    LET ps == calls[i].before.bodyParts
        parentId == calls[i].args[2]
        after == After(i).bodyParts
        newPart == calls[i].ret
    IN IF ~HasPart(ps, parentId)
       THEN newPart = Nothing /\ after = ps
       ELSE /\ "parent" \in DOMAIN newPart
            /\ ~HasPart(ps, newPart.id)
            /\ newPart.parent = parentId
            /\ newPart.children = <<>>
            /\ newPart.equipment = ""
            /\ PartIdsOf(after) = PartIdsOf(ps) \cup {newPart.id}
            /\ Len(after) = Len(ps) + 1
            /\ GetPart(after, newPart.id) = newPart
            /\ \A q \in PartIdsOf(ps) :
                 IF q = parentId
                 THEN GetPart(after, q) =
                        [GetPart(ps, q) EXCEPT !.children = Append(@, newPart.id)]
                 ELSE GetPart(after, q) = GetPart(ps, q)

\* the number of leading entries of types that are body part types
RECURSIVE ValidPrefix(_)
ValidPrefix(types) ==
  IF types = <<>> \/ Head(types) \notin BodyPartTypes THEN 0
  ELSE 1 + ValidPrefix(Tail(types))

\* C28: addBodyPartWithChildren adds the main part under parentId and then
\* each declared child type, in order, as a direct child of the main part; if
\* a later child type is invalid, the main part and the children already added
\* remain in the hierarchy, and the operation reports the ids that were added.
C28_AddWithChildren ==
  \A i \in CallsOf("addBodyPartWithChildren") :
    LET ps == calls[i].before.bodyParts
        type == calls[i].args[1]
        parentId == calls[i].args[2]
        withChildren == calls[i].args[3]
        after == After(i).bodyParts
        addedIds == calls[i].ret.addedIds
        k == ValidPrefix(withChildren)
    IN (HasPart(ps, parentId) /\ type \in BodyPartTypes) =>
         /\ ~calls[i].ret.threw
         /\ Len(addedIds) >= 1 + k
         /\ PartIdsOf(after) = PartIdsOf(ps) \cup Range(addedIds)
         /\ GetPart(after, addedIds[1]).type = type
         /\ GetPart(after, addedIds[1]).parent = parentId
         /\ \A j \in 1..k :
              /\ GetPart(after, addedIds[1 + j]).type = withChildren[j]
              /\ GetPart(after, addedIds[1 + j]).parent = addedIds[1]
              /\ GetPart(after, addedIds[1]).children[j] = addedIds[1 + j]

\* the children of part id in ps, as their <<type, laterality>> in order
ChildShapes(ps, id) ==
  [j \in 1..Len(GetPart(ps, id).children) |->
     <<GetPart(ps, GetPart(ps, id).children[j]).type,
       GetPart(ps, GetPart(ps, id).children[j]).laterality>>]
\* the only child of the only child of root with this shape
OnlyChildOf(ps, root, shape) ==
  CHOOSE c \in Range(GetPart(ps, root).children) :
    <<GetPart(ps, c).type, GetPart(ps, c).laterality>> = shape

\* C29: every call of createHumanoidBody returns a single root Body whose
\* children are Head (with one Face child), Back, Left Arm (with one Left Hand
\* child), Right Arm (with one Right Hand child) and Feet, plus one floating
\* slot that is in the hierarchy but attached to no part; the ids of a result
\* are pairwise distinct and distinct from the ids of every earlier result.
C29_HumanoidShape ==
  \A i \in CallsOf("createHumanoidBody") :
    LET ps == calls[i].ret.parts
        root == calls[i].ret.root
        floating == {q \in PartIdsOf(ps) : GetPart(ps, q).type = "FloatingNearby"}
    IN /\ GetPart(ps, root).type = "Body" /\ GetPart(ps, root).parent = ""
       /\ {q \in PartIdsOf(ps) : GetPart(ps, q).type = "Body"} = {root}
       /\ ChildShapes(ps, root)
            = << <<"Head", "">>, <<"Back", "">>, <<"Arm", "Left">>,
                 <<"Arm", "Right">>, <<"Feet", "">> >>
       /\ ChildShapes(ps, OnlyChildOf(ps, root, <<"Head", "">>)) = << <<"Face", "">> >>
       /\ ChildShapes(ps, OnlyChildOf(ps, root, <<"Arm", "Left">>))
            = << <<"Hand", "Left">> >>
       /\ ChildShapes(ps, OnlyChildOf(ps, root, <<"Arm", "Right">>))
            = << <<"Hand", "Right">> >>
       /\ Cardinality(floating) = 1
       /\ \A f \in floating :
            /\ GetPart(ps, f).parent = ""
            /\ \A q \in PartIdsOf(ps) : f \notin Range(GetPart(ps, q).children)
       /\ Len(ps) = 10
       /\ Cardinality(PartIdsOf(ps)) = Len(ps)
       /\ \A j \in CallsOf("createHumanoidBody") :
            j < i => PartIdsOf(calls[j].ret.parts) \cap PartIdsOf(ps) = {}

\* C21: after every recomputation every entry of the HP ledger, the level-1
\* entry included, has its modifier equal to the current toughness modifier
\* and its total consistent with the current toughness (the toughness value
\* for the level-1 entry, roll + modifier for the others), and no call
\* changes the roll of an entry.
C21_LedgerCurrent ==
  /\ \A k \in 1..Len(actor.health.hpHistory) :
       LET entry == actor.health.hpHistory[k]
       IN /\ entry.modifier = actor.toughness.mod
          /\ entry.total = IF k = 1 THEN actor.toughness.value
                           ELSE entry.roll + actor.toughness.mod
  /\ \A i \in 1..Len(calls) :
       \A k \in 1..Len(calls[i].before.health.hpHistory) :
         Derived(i).health.hpHistory[k].roll = calls[i].before.health.hpHistory[k].roll

\* carry capacity max with the carry bonus of each of these mutations added in
\* turn: flat adds the value, percent the floor of max * value / 100, formula
\* the formula at the mutation's level
RECURSIVE WithCarryBonuses(_, _)
WithCarryBonuses(max, names) ==
  IF names = <<>> THEN max
  ELSE LET bonus == mutations[names[1]].statBonuses.carryCapacity
           level == mutations[names[1]].level
       IN WithCarryBonuses(
            max + (IF bonus.type = "flat" THEN bonus.value
                   ELSE IF bonus.type = "percent" THEN (max * bonus.value) \div 100
                   ELSE IF bonus.type = "formula" THEN evalFormula(bonus.formula, level)
                   ELSE 0),
            Tail(names))

\* C25: after recomputation carry capacity max is 15 * strength value plus,
\* cumulatively, the carry capacity bonus of every active mutation that
\* declares one, whatever its shape (flat, percent or level formula).
C25_CarryCapacity ==
  actor.carryCapacity.max =
    WithCarryBonuses(15 * actor.strength.value,
      SelectSeq(ActiveMutations(mutations),
                LAMBDA name : /\ "statBonuses" \in DOMAIN mutations[name]
                              /\ "carryCapacity" \in DOMAIN mutations[name].statBonuses))

\* the last completed edit of the sheet and the current HP it prepared
LastEdit == calls[Len(calls)]
HpBeforePrepare ==
  IF LastEdit.op = "updateHealthValue" THEN LastEdit.args[1]
  ELSE LastEdit.before.sd.health.value

\* C22: after every recomputation of a character or of an NPC with manual
\* modifiers the current HP is at most the max HP: a current HP above the
\* freshly computed max is lowered to the max, one at or below it is left as
\* it was.
C22_HpClamped ==
  calls # <<>> =>
    /\ actor.health.value <= actor.health.max
    /\ actor.health.value = IF HpBeforePrepare > actor.health.max
                            THEN actor.health.max ELSE HpBeforePrepare

\* the sum over the items of weight * quantity
RECURSIVE WeightTimesQuantity(_, _)
WeightTimesQuantity(docs, ids) ==
  IF ids = {} THEN 0
  ELSE LET id == CHOOSE id \in ids : TRUE
       IN docs[id].weight * docs[id].quantity + WeightTimesQuantity(docs, ids \ {id})

\* C26: after a full recomputation the carried weight is the sum over all
\* items of weight * quantity (an item of quantity 0 adds nothing), and the
\* overburdened flag is set exactly when the carried weight is above the final
\* carry capacity max, the one that includes the mutation bonuses.
C26_CarriedWeight ==
  calls # <<>> =>
    /\ actor.carryCapacity.current = WeightTimesQuantity(items, DOMAIN items)
    /\ actor.carryCapacity.overburdened
         = (WeightTimesQuantity(items, DOMAIN items) > actor.carryCapacity.max)

\* the active mutations whose armor grant targets a type of part
ArmorGrants(type) ==
  {name \in DOMAIN mutations :
     mutations[name].isActive /\ ProvidesArmorType(name) = type}
PreparedAV == IF actor.type = "npc" THEN combat.avBase ELSE combat.av

\* C24: after every recomputation a part's natural armor is non-zero only if
\* an active mutation with an armor grant targets the part's type, and is then
\* that mutation's formula at its level; every other part has natural armor
\* 0; hasWings is set exactly on the Back parts while Wings is active; nothing
\* a deactivated mutation wrote is left; and the AV of the same recomputation
\* is the one computed from these values.
C24_NaturalArmor ==
  calls # <<>> =>
    /\ \A i \in 1..Len(bodyParts) :
         /\ ArmorGrants(bodyParts[i].type) = {} => bodyParts[i].naturalArmor.av = 0
         /\ ArmorGrants(bodyParts[i].type) # {} =>
              \E name \in ArmorGrants(bodyParts[i].type) :
                bodyParts[i].naturalArmor.av = avFormula(name, mutations[name].level)
         /\ bodyParts[i].hasWings
              = (bodyParts[i].type = "Back" /\ mutations.Wings.isActive)
    /\ PreparedAV = applyEquipmentBonuses(SheetData, items).combat.av

\* Horns has just been removed: the Head lost the natural armor it had, while
\* Quills and Wings, still active, keep theirs on the Back
C24_Witness ==
  /\ calls # <<>>
  /\ LastEdit.op = "removeMutation" /\ LastEdit.args = <<"Horns">>
  /\ \E i \in 1..Len(bodyParts) :
       /\ bodyParts[i].type = "Head"
       /\ LastEdit.before.sd.bodyParts[i].naturalArmor.av = 2
       /\ bodyParts[i].naturalArmor.av = 0
  /\ \E i \in 1..Len(bodyParts) :
       /\ bodyParts[i].type = "Back"
       /\ bodyParts[i].naturalArmor.av = 2
       /\ bodyParts[i].hasWings

\* C23: for every integer value v of an attribute, also below 16, the
\* recomputed modifier is floor((v - 16) / 2), rounded toward negative
\* infinity (16 gives 0, 15 gives -1, 22 gives 3); it is computed from the
\* value each time and never carried over from the value before.
C23_AttributeModifier ==
  calls # <<>> =>
    \A key \in DOMAIN SheetData.attributes :
      LET v == SheetData.attributes[key].value
          m == SheetData.attributes[key].mod
      IN /\ 2 * m <= v - 16
         /\ v - 16 < 2 * m + 2
         /\ (v = 16 => m = 0) /\ (v = 15 => m = -1) /\ (v = 22 => m = 3)

\* agility has just been edited from 16 (modifier 0) to 15 and its modifier is
\* -1, while intelligence stands at 22 with modifier 3
C23_Witness ==
  /\ calls # <<>>
  /\ LastEdit.op = "updateAttribute" /\ LastEdit.args = <<"agility", 15>>
  /\ LastEdit.before.sd.attributes.agility = [value |-> 16, mod |-> 0]
  /\ SheetData.attributes.agility = [value |-> 15, mod |-> -1]
  /\ SheetData.attributes.intelligence = [value |-> 22, mod |-> 3]

\* the attack has rolled its first die; it has returned its results
RolledFirstDie(a) == inv[a].entry = "rollMultiAttack" /\ inv[a].dieLog # <<>>
ReturnedResults(a) == inv[a].pc = "done"
\* the triplets a penetration sequence of the attack has rolled so far
TripletsWithin(a) ==
  (inv[a].pen # <<>> /\ inv[a].pen.attackerPV > 0)
    => Len(inv[a].pen.triplets) <= (inv[a].pen.attackerPV + 1) \div 2

\* C30: every attack that has rolled its first die eventually completes and
\* returns its result, provided every exploding singlet eventually rolls a
\* face other than 10; and a penetration sequence started with PV p > 0 never
\* has more than ceil(p / 2) triplets.
C30_AttackCompletes ==
  /\ [](TripletsWithin("A1"))
  /\ RolledFirstDie("A1") ~> ReturnedResults("A1")

\* the invocation is between its first die roll and its damage application
BetweenFirstDieAndDamage(a) ==
  /\ inv[a].entry = "rollMultiAttack"
  /\ inv[a].dieLog # <<>>
  /\ inv[a].pc \notin {"chat", "done", "failed"}

\* C31: no two attacks are in progress at the same time: while one
\* rollMultiAttack is between its first die roll and its damage application
\* no other rollMultiAttack rolls dice or applies damage, so two invocations
\* are never both past their first die and before their damage application.
C31_OneAttackAtATime ==
  \A a, b \in Attacks :
    a # b => ~(BetweenFirstDieAndDamage(a) /\ BetweenFirstDieAndDamage(b))

\* the faces singlet i of triplet t asked for, in the order they arrived
FacesOf(t, i) ==
  LET own == SelectSeq(calls, LAMBDA c : c.triplet = t /\ c.singlet = i)
  IN [j \in 1..Len(own) |-> own[j].raw]
RECURSIVE SumModified(_)
SumModified(faces) ==
  IF faces = <<>> THEN 0 ELSE (Head(faces) - 2) + SumModified(Tail(faces))
\* the singlet holds exactly its own dice
OwnDice(s, t, i) ==
  /\ [j \in 1..Len(s.rolls) |-> s.rolls[j].raw] = FacesOf(t, i)
  /\ s.total = SumModified(FacesOf(t, i))
\* the singlet has ended: every face but the last is a 10
Terminated(faces) ==
  /\ faces # <<>>
  /\ \A j \in 1..Len(faces) : (faces[j] = 10) = (j < Len(faces))

\* C32: the three singlets of a triplet are started together and their dice
\* may arrive in any order; under every order each singlet's rolls and total
\* are made of the dice that singlet asked for only, the singlets array is in
\* start order, and the pass count is computed after all three have ended.
C32_TripletInterleaving ==
  LET f == inv["A1"] IN
  f.entry = "resolvePenetration" =>
    /\ f.pc = "triplet" =>
         \A i \in 1..3 : OwnDice(f.singlets[i], Len(f.pen.triplets) + 1, i)
    /\ \A t \in 1..Len(f.pen.triplets) :
         LET triplet == f.pen.triplets[t] IN
         /\ Len(triplet.singlets) = 3
         /\ \A i \in 1..3 : /\ OwnDice(triplet.singlets[i], t, i)
                            /\ Terminated(FacesOf(t, i))
         /\ triplet.singletsPassed =
              Cardinality({i \in 1..3 :
                SumModified(FacesOf(t, i)) + triplet.attackerPV >= triplet.defenderAV})

\* a returned triplet whose dice interleaved: the third singlet's die came
\* first, and a die of another singlet came between the exploding 10 of the
\* first singlet and its second die; only the first singlet passed
C32_Witness ==
  LET f == inv["A1"] IN
  /\ f.entry = "resolvePenetration" /\ f.pc = "returned"
  /\ Len(calls) = 4
  /\ calls[1].singlet = 3
  /\ calls[2] = [triplet |-> 1, singlet |-> 1, raw |-> 10]
  /\ calls[3].singlet = 2
  /\ calls[4].singlet = 1
  /\ f.ret.triplets[1].singletsPassed = 1

\* the equipment references and the equipped flags of a set of documents
EquipmentRefs(ps) == [i \in 1..Len(ps) |-> [id |-> ps[i].id, equipment |-> ps[i].equipment]]
EquippedFlags(docs) == [id \in DOMAIN docs |-> docs[id].equipped]
\* the reasons for which equipToBodyPart refuses, stated on what the call found
RefusedEquip(b, itemId, partId) ==
  \/ itemId \notin DOMAIN b.items
  \/ ~HasPart(b.bodyParts, partId)
  \/ LET item == b.items[itemId]
         type == GetPart(b.bodyParts, partId).type
     IN \/ type \notin CanEquipTypes
        \/ item.type = "armor" /\ item.slot # SlotTypeOf(type)
        \/ item.type = "weapon" /\ type \notin WieldingTypes
        \/ \E m \in DOMAIN b.mutations :
             /\ b.mutations[m].isActive
             /\ type \in DOMAIN b.mutations[m].blockedEquipment
             /\ item.type \in b.mutations[m].blockedEquipment[type]

\* C33: equipToBodyPart returns false and leaves every part's equipment
\* reference and every item's equipped flag as they were when the item or the
\* part does not exist, the part's type cannot equip, an armor's slot is not
\* the part type's slot, a weapon goes to a part that cannot wield, or an
\* active mutation blocks the item's category on the part's type; otherwise it
\* returns true, the part references the item, the item is flagged equipped
\* and the part no longer references the item it held before.
C33_EquipToBodyPart ==
  (calls # <<>> /\ LastEdit.op = "equipToBodyPart") =>
    LET b == LastEdit.before
        itemId == LastEdit.args[1]
        partId == LastEdit.args[2]
    IN IF RefusedEquip(b, itemId, partId)
       THEN /\ LastEdit.ret = FALSE
            /\ EquipmentRefs(bodyParts) = EquipmentRefs(b.bodyParts)
            /\ EquippedFlags(items) = EquippedFlags(b.items)
       ELSE /\ LastEdit.ret = TRUE
            /\ GetPart(bodyParts, partId).equipment = itemId
            /\ items[itemId].equipped
            /\ LET held == GetPart(b.bodyParts, partId).equipment
               IN (held # "" /\ held # itemId) =>
                    GetPart(bodyParts, partId).equipment # held

\* the helmet has just been refused on the head because Horns is active,
\* while the sword stays in the right hand
C33_Witness ==
  /\ calls # <<>>
  /\ LastEdit.op = "equipToBodyPart" /\ LastEdit.args = <<"helmet", "bp_1">>
  /\ LastEdit.before.mutations.Horns.isActive
  /\ LastEdit.ret = FALSE
  /\ GetPart(bodyParts, "bp_1").equipment = ""
  /\ GetPart(bodyParts, "bp_7").equipment = "sword" /\ items.sword.equipped

\* C34: setMainHand(id) fails with an error and leaves mainHandId as it was
\* when id is not an existing body part or the part bears neither an equipped
\* weapon nor a natural weapon; otherwise mainHandId becomes id.
C34_SetMainHand ==
  (calls # <<>> /\ LastEdit.op = "setMainHand") =>
    LET b == LastEdit.before
        id == LastEdit.args[1]
        part == GetPart(b.bodyParts, id)
        equippedWeapon == /\ part.equipment # ""
                          /\ part.equipment \in DOMAIN b.items
                          /\ b.items[part.equipment].type = "weapon"
        naturalWeapon == /\ part.equipment = ""
                         /\ \E m \in DOMAIN b.mutations :
                              /\ b.mutations[m].isActive
                              /\ part.type \in NaturalWeaponTypes(m)
    IN IF ~HasPart(b.bodyParts, id) \/ (~equippedWeapon /\ ~naturalWeapon)
       THEN LastEdit.ret # "" /\ combat.mainHandId = b.mainHandId
       ELSE LastEdit.ret = "" /\ combat.mainHandId = id

\* the head has just been refused as main hand, Horns being inactive, and the
\* designated right hand with the sword stays the main hand
C34_Witness ==
  /\ calls # <<>>
  /\ LastEdit.op = "setMainHand" /\ LastEdit.args = <<"bp_1">>
  /\ ~LastEdit.before.mutations.Horns.isActive
  /\ LastEdit.ret = ErrPartNoWeapon
  /\ LastEdit.before.mainHandId = "bp_7"
  /\ combat.mainHandId = "bp_7"

\* C37: after any sequence of setMainHand, equip and unequip, body part
\* removal and mutation application and removal, a non-empty mainHandId names
\* an existing body part that bears a weapon, equipped or natural.
C37_MainHandValid ==
  combat.mainHandId # "" =>
    /\ HasPart(bodyParts, combat.mainHandId)
    /\ BearsWeapon(PartById(combat.mainHandId))

\* C39: while a mutation with an equipment block is active, no body part of a
\* blocked type holds an item of the blocked category, in whatever order the
\* item was equipped and the mutation applied.
C39_NoBlockedEquipment ==
  \A m \in DOMAIN mutations :
    mutations[m].isActive =>
      \A i \in 1..Len(bodyParts) :
        (bodyParts[i].type \in DOMAIN mutations[m].blockedEquipment
         /\ bodyParts[i].equipment \in DOMAIN items)
          => items[bodyParts[i].equipment].type
               \notin mutations[m].blockedEquipment[bodyParts[i].type]

\* C38: in every attack, each hand that rolled a to-hit or a damage die
\* attacks with an equipped item of type weapon or with a natural weapon of its
\* body part; a part whose equipped item is not a weapon rolls neither.
C38_HandsUseWeapons ==
  \A a \in AttackCalls :
    \A k \in 1..Len(inv[a].dieLog) :
      inv[a].dieLog[k].kind \in {"d20", "damage"}
        => BearsWeapon(PartById(inv[a].dieLog[k].part))

\* the attack's damage has been applied to the target
DamageApplied(a) ==
  /\ inv[a].pc \in {"chat", "done"}
  /\ inv[a].ret.totalDamage > 0

\* C36: applying damage sets the target's current HP to
\* max(0, current HP - amount) and records the turn of the damage in
\* health.lastDamageTurn, also for the damage applied at the end of an attack.
C36_ApplyDamage ==
  \A a \in AttackCalls :
    DamageApplied(a) =>
      /\ target.health = Max(0, inv[a].ret.targetHPBefore - inv[a].ret.totalDamage)
      /\ target.lastDamageTurn # <<>>

\* the singlets the breakdown shows as succeeded in one triplet
ShownSucceeded(detail) ==
  {k \in 1..Len(detail.singlets) : detail.singlets[k].succeeded}

\* C35: in the formatted attack breakdown each singlet's succeeded flag equals
\* whether the singlet passed in the engine (attackerPV + total >= defenderAV),
\* so the number of singlets shown as succeeded in a triplet equals the
\* triplet's singletsPassed.
C35_BreakdownMatchesEngine ==
  \A a \in Attacks :
    inv[a].pc = "returned" =>
      LET details == formatTripletDetails(inv[a].ret) IN
      \A t \in 1..Len(details) :
        LET triplet == inv[a].ret.triplets[t] IN
        /\ \A k \in 1..3 :
             details[t].singlets[k].succeeded
               <=> SingletPasses(triplet.singlets[k], triplet.attackerPV,
                                 triplet.defenderAV)
        /\ Cardinality(ShownSucceeded(details[t])) = triplet.singletsPassed

====
